---- MODULE Spec2Model ----
(***************************************************************************)
(* A model of git-jade's repository engine: the object store, the staging  *)
(* index, branches and HEAD, and the add / rm / commit / branch /          *)
(* rm_branch / checkout / merge operations of src/src/repo.rs.             *)
(*                                                                         *)
(* Digests are modelled as an injective function of the stored object      *)
(* (a collision-free SHA-1), paths as sequences of path components.        *)
(***************************************************************************)
EXTENDS Integers, Sequences, FiniteSets, TLC

VARIABLES worktree, index_file, objects, branches, HEAD, last, mem_index

vars == <<worktree, index_file, objects, branches, HEAD, last, mem_index>>

----------------------------------------------------------------------------
(* Bounds and input sets *)

\* most commit objects the store may hold before commit and merge are cut off
MaxCommits == 3

\* most merge commits recorded on top of a diverged history (SpecMerge)
MaxMerges == 1

\* most commit object files the store may hold (SpecDigest)
MaxObjectFiles == 2

\* largest entry count an Index value may show before updates are cut off
\* (SpecIndex)
MaxSize == 3

\* working-tree paths the user touches, as component sequences
Paths == {<<"d", "a">>}

\* the paths of the diverged histories of SpecMerge
MergePaths == {<<"a">>, <<"b">>, <<"d", "c">>}

\* the file contents the user writes at each path
UserContents(p) == IF p = <<"d", "a">> THEN {"hello", "x"}
                   ELSE IF p = <<"a">> THEN {"hello", "D", "F"}
                   ELSE IF p = <<"b">> THEN {"1"} ELSE {"2"}

BranchNames == {"master", "feature"}

Messages == {"", "m"}

\* author timestamps (seconds) the clock may show when a commit is built
Times == {1}

\* byte order of the component names (BTreeMap iteration order)
NameOrder == <<"a", "a b", "b", "c", "d", "d.x", "x", "é">>

\* two digests as the index file spells them: forty hexadecimal digits
Hex1 == "1111111111111111111111111111111111111111"

Hex2 == "2f2f2f2f2f2f2f2f2f2f2f2f2f2f2f2f2f2f2f2f"

\* forty characters that are no hexadecimal digits
NotHex == "not a digest, but forty characters long!"

\* what the user may write into a branch file, into HEAD
RefContents == {Hex1 \o "\n", NotHex, "abc"}

HeadContents == {"ref: refs/heads/feature\n", Hex2, NotHex \o "\n", "abc"}

\* the author and committer lines of the commit texts
AuthorLine == "A U Thor <a@example.com> 1 +0000"

\* the paths a caller hands to the index, as the caller spells them
PathTexts == {"a b", "./d", "d\\a", "é", "d/../é"}

\* further spellings of paths that normalize_path is given
NormalizeTexts ==
    {"a/../b", "../../dir/../file", "../parent.txt", "/topfile.txt", "./src/main.rs",
     "dir//subdir///file.txt", "mixed/dir\\file", "a/./b", ""}

\* the paths of hand-written index files, in ascending byte order
FilePathOrder == <<"d.x", "d/a">>

----------------------------------------------------------------------------
(* Option values *)

None == <<>>
Some(x) == <<x>>
is_some(o) == o /= <<>>
unwrap(o) == o[1]

----------------------------------------------------------------------------
(* src/src/index.rs : the index as a tree of nodes *)

new_directory == [children |-> <<>>, sha1 |-> None]

new_file(sha1) == [children |-> <<>>, sha1 |-> Some(sha1)]

Index_new == [root |-> new_directory, size |-> 0]

IsSpecial(c) == c \in {"/", ".", ".."}

\* keeps the Normal components, drops every other one
normalize_path(path) == SelectSeq(path, LAMBDA c : ~IsSpecial(c))

RECURSIVE split_path(_)
split_path(path) ==
    IF path = <<>> THEN <<>>
    ELSE LET init == split_path(SubSeq(path, 1, Len(path) - 1))
             c == path[Len(path)]
         IN IF c = ".." THEN (IF init = <<>> THEN <<>>
                              ELSE SubSeq(init, 1, Len(init) - 1))
            ELSE IF c \in {".", "/"} THEN init
            ELSE Append(init, c)

Components(path) == split_path(normalize_path(path))

\* insert the leaf below node; the result is <<new node, leaf was new>>
RECURSIVE insert_node(_, _, _)
insert_node(node, comps, sha1) ==
    LET c == comps[1] IN
    IF Len(comps) = 1
    THEN <<[node EXCEPT !.children = (c :> new_file(sha1)) @@ node.children],
           c \notin DOMAIN node.children>>
    ELSE LET child == IF c \in DOMAIN node.children THEN node.children[c]
                      ELSE new_directory
             r == insert_node(child, Tail(comps), sha1)
         IN <<[node EXCEPT !.children = (c :> r[1]) @@ node.children], r[2]>>

update_entry(index, file_path, sha1) ==
    LET components == Components(file_path) IN
    IF components = <<>> THEN index
    ELSE LET r == insert_node(index.root, components, sha1)
         IN [root |-> r[1], size |-> IF r[2] THEN index.size + 1 ELSE index.size]

\* the node reached by descending comps, None when a component is missing
RECURSIVE find_node(_, _)
find_node(node, comps) ==
    IF comps = <<>> THEN Some(node)
    ELSE IF comps[1] \in DOMAIN node.children
         THEN find_node(node.children[comps[1]], Tail(comps))
         ELSE None

get_sha1(index, file_path) ==
    LET components == Components(file_path) IN
    IF components = <<>> THEN None
    ELSE LET n == find_node(index.root, components)
         IN IF is_some(n) THEN unwrap(n).sha1 ELSE None

RECURSIVE delete_node(_, _)
delete_node(node, comps) ==
    LET c == comps[1] IN
    IF Len(comps) = 1
    THEN [node EXCEPT !.children =
              [n \in DOMAIN node.children \ {c} |-> node.children[n]]]
    ELSE [node EXCEPT !.children =
              (c :> delete_node(node.children[c], Tail(comps))) @@ node.children]

\* <<index afterwards, removed digest>>
remove_entry(index, file_path) ==
    LET components == Components(file_path) IN
    IF components = <<>> THEN <<index, None>>
    ELSE LET n == find_node(index.root, components)
         IN IF is_some(n)
            THEN <<[root |-> delete_node(index.root, components),
                    size |-> index.size - 1], unwrap(n).sha1>>
            ELSE <<index, None>>

Ord(name) == CHOOSE i \in 1..Len(NameOrder) : NameOrder[i] = name

RECURSIVE SortNames(_)
SortNames(S) ==
    IF S = {} THEN <<>>
    ELSE LET m == CHOOSE x \in S : \A y \in S : Ord(x) <= Ord(y)
         IN <<m>> \o SortNames(S \ {m})

RECURSIVE traverse_tree(_, _)
RECURSIVE traverse_children(_, _, _)
traverse_children(node, names, path) ==
    IF names = <<>> THEN <<>>
    ELSE LET child == node.children[names[1]]
             here == Append(path, names[1])
         IN (IF is_some(child.sha1) THEN <<<<here, unwrap(child.sha1)>>>>
             ELSE traverse_tree(child, here))
            \o traverse_children(node, Tail(names), path)
traverse_tree(node, path) ==
    traverse_children(node, SortNames(DOMAIN node.children), path)

\* the (path, digest) pairs in depth-first ascending order
collect_entries(index) == traverse_tree(index.root, <<>>)

RECURSIVE load_lines(_, _)
load_lines(index, lines) ==
    IF lines = <<>> THEN index
    ELSE load_lines(update_entry(index, lines[1][1], lines[1][2]), Tail(lines))

\* Index::load of an existing index file holding the given lines
Index_load(lines) == load_lines(Index_new, lines)

\* Index::save: the lines written to the index file
Index_save(index) == collect_entries(index)

Range(s) == {s[i] : i \in DOMAIN s}

\* the set of (path, digest) entries of an index
Entries(index) == Range(collect_entries(index))

----------------------------------------------------------------------------
(* src/src/index.rs : paths and the index file as text *)

\* the place of the first c in text at or after place i, 0 when there is none
RECURSIVE find_char(_, _, _)
find_char(text, c, i) ==
    IF i > Len(text) THEN 0
    ELSE IF SubSeq(text, i, i) = c THEN i ELSE find_char(text, c, i + 1)

\* str::split on one character
RECURSIVE split(_, _)
split(text, c) ==
    LET i == find_char(text, c, 1) IN
    IF i = 0 THEN <<text>>
    ELSE <<SubSeq(text, 1, i - 1)>> \o split(SubSeq(text, i + 1, Len(text)), c)

\* str::lines: the pieces between newlines, without an empty last piece
str_lines(content) ==
    LET pieces == split(content, "\n") IN
    IF pieces[Len(pieces)] = "" THEN SubSeq(pieces, 1, Len(pieces) - 1)
    ELSE pieces

\* line.splitn(2, ' '): cut at the first space only
splitn2(line) ==
    LET i == find_char(line, " ", 1) IN
    IF i = 0 THEN <<line>>
    ELSE <<SubSeq(line, 1, i - 1), SubSeq(line, i + 1, Len(line))>>

\* str::replace of every backslash by a slash
RECURSIVE replace_backslash(_)
replace_backslash(text) ==
    IF text = "" THEN ""
    ELSE (IF SubSeq(text, 1, 1) = "\\" THEN "/" ELSE SubSeq(text, 1, 1))
         \o replace_backslash(SubSeq(text, 2, Len(text)))

\* Path::components of a path string: a leading slash is the root, empty
\* pieces and inner "." pieces are no components
path_components(text) ==
    LET pieces == split(text, "/") IN
    (IF Len(text) > 0 /\ SubSeq(text, 1, 1) = "/" THEN <<"/">> ELSE <<>>)
    \o SelectSeq(SubSeq(pieces, 1, 1), LAMBDA c : c /= "")
    \o SelectSeq(SubSeq(pieces, 2, Len(pieces)), LAMBDA c : c \notin {"", "."})

\* the components normalize_path walks for a path given as a string
path_of(text) == path_components(replace_backslash(text))

\* Vec::join of strings
RECURSIVE join(_, _)
join(pieces, sep) ==
    IF pieces = <<>> THEN ""
    ELSE IF Len(pieces) = 1 THEN pieces[1]
    ELSE pieces[1] \o sep \o join(Tail(pieces), sep)

\* normalize_path from string to string
normalize_text(text) == join(normalize_path(path_of(text)), "/")

\* the lines Index::save formats, one per collected entry
RECURSIVE format_entries(_)
format_entries(entries) ==
    IF entries = <<>> THEN <<>>
    ELSE <<join(entries[1][1], "/") \o " " \o entries[1][2]>>
         \o format_entries(Tail(entries))

\* Index::save: the content written to the index file
Index_save_text(index) == join(format_entries(collect_entries(index)), "\n")

\* the loop of Index::load; None is Err("Invalid index format")
RECURSIVE load_text_lines(_, _)
load_text_lines(index, ls) ==
    IF ls = <<>> THEN Some(index)
    ELSE LET parts == splitn2(ls[1]) IN
         IF Len(parts) /= 2 THEN None
         ELSE load_text_lines(update_entry(index, path_of(parts[1]), parts[2]),
                              Tail(ls))

\* Index::load of an existing index file with the given content
Index_load_text(content) == load_text_lines(Index_new, str_lines(content))

----------------------------------------------------------------------------
(* src/src/lib.rs : digests built from strings *)

\* EncodedSha::from_string: any string becomes a digest value
from_string(string) == string

\* EncodedSha::from_str: None is Err(())
from_str(text) == IF Len(text) /= 40 THEN None ELSE Some(text)

IsWhite(c) == c \in {" ", "\n", "\t", "\r"}

RECURSIVE trim_start(_)
trim_start(text) ==
    IF text /= "" /\ IsWhite(SubSeq(text, 1, 1))
    THEN trim_start(SubSeq(text, 2, Len(text))) ELSE text

RECURSIVE trim_end(_)
trim_end(text) ==
    IF text /= "" /\ IsWhite(SubSeq(text, Len(text), Len(text)))
    THEN trim_end(SubSeq(text, 1, Len(text) - 1)) ELSE text

trim(text) == trim_end(trim_start(text))

\* str::strip_prefix: the rest after the prefix, None without it
strip_prefix(text, prefix) ==
    IF Len(text) >= Len(prefix) /\ SubSeq(text, 1, Len(prefix)) = prefix
    THEN Some(SubSeq(text, Len(prefix) + 1, Len(text))) ELSE None

strip_suffix(text, suffix) ==
    IF Len(text) >= Len(suffix)
       /\ SubSeq(text, Len(text) - Len(suffix) + 1, Len(text)) = suffix
    THEN Some(SubSeq(text, 1, Len(text) - Len(suffix))) ELSE None

----------------------------------------------------------------------------
(* src/src/object.rs : objects, digests and the object store *)

Blob(data) == [type |-> "blob", data |-> data]

Tree_new == [type |-> "tree", entries |-> <<>>]

add_entry(tree, object_type, sha1, name) ==
    [tree EXCEPT !.entries =
        (name :> [object_type |-> object_type, sha1 |-> sha1]) @@ tree.entries]

Commit_new(tree_sha, parents, author, message) ==
    [type |-> "commit", tree_sha |-> tree_sha, parents |-> parents,
     author |-> author, message |-> message]

\* SHA-1 of the canonical encoding, taken to be collision free
encoded_sha1(obj) == [sha1 |-> obj]

\* store that starts the object directory afresh for every object it writes
store_afresh(db, obj) ==
    LET encoded_sha == encoded_sha1(obj) IN <<(encoded_sha :> obj), encoded_sha>>

\* <<store afterwards, digest>>; an existing object file is never rewritten
store(db, obj) ==
    LET encoded_sha == encoded_sha1(obj) IN
    <<IF encoded_sha \in DOMAIN db THEN db ELSE (encoded_sha :> obj) @@ db,
      encoded_sha>>

\* None when no object file exists under the digest
retrieve(db, encoded_sha) ==
    IF encoded_sha \in DOMAIN db THEN Some(db[encoded_sha]) ELSE None

----------------------------------------------------------------------------
(* src/src/object.rs : a commit read from its text *)

\* the place of the last c in text at or before place i, 0 when there is none
RECURSIVE rfind_char(_, _, _)
rfind_char(text, c, i) ==
    IF i < 1 THEN 0
    ELSE IF SubSeq(text, i, i) = c THEN i ELSE rfind_char(text, c, i - 1)

\* the place where sub first starts in text at or after place i, 0 for none
RECURSIVE find_str(_, _, _)
find_str(text, sub, i) ==
    IF i + Len(sub) - 1 > Len(text) THEN 0
    ELSE IF SubSeq(text, i, i + Len(sub) - 1) = sub THEN i
    ELSE find_str(text, sub, i + 1)

IsDigits(text) ==
    /\ text /= ""
    /\ \A i \in 1..Len(text) :
          SubSeq(text, i, i) \in {"0", "1", "2", "3", "4", "5", "6", "7", "8", "9"}

\* a zone as "%z" reads it: a sign and four digits
IsZone(text) ==
    /\ Len(text) = 5
    /\ SubSeq(text, 1, 1) \in {"+", "-"}
    /\ IsDigits(SubSeq(text, 2, 5))

\* None is an Err; the line is cut from the right into name/email, seconds, zone
parse_author(text) ==
    LET j == rfind_char(text, " ", Len(text))
        i == rfind_char(text, " ", j - 1)
        tz == SubSeq(text, j + 1, Len(text))
        timestamp == SubSeq(text, i + 1, j - 1)
        rest == SubSeq(text, 1, i - 1)
        k == find_str(rest, " <", 1)
        email == strip_suffix(SubSeq(rest, k + 2, Len(rest)), ">")
    IN IF j = 0 \/ i = 0 THEN None
       ELSE IF ~(IsDigits(timestamp) /\ IsZone(tz)) THEN None
       ELSE IF k = 0 \/ email = None THEN None
       ELSE Some([name |-> SubSeq(rest, 1, k - 1), email |-> unwrap(email),
                  timestamp |-> timestamp, tz |-> tz])

\* Display for Author: name, email, seconds and zone
Author_display(author) ==
    author.name \o " <" \o author.email \o "> "
    \o author.timestamp \o " " \o author.tz

RECURSIVE parent_lines(_)
parent_lines(parents) ==
    IF parents = <<>> THEN ""
    ELSE "parent " \o parents[1] \o "\n" \o parent_lines(Tail(parents))

\* Display for Commit: the content that follows the "commit <size>" header
Commit_display(self) ==
    "tree " \o self.tree_sha \o "\n"
    \o parent_lines(self.parents)
    \o "author " \o Author_display(self.author) \o "\n"
    \o "committer " \o Author_display(self.committer) \o "\n"
    \o "\n"
    \o self.message

\* the fields before any line is read
commit_fields ==
    [tree_sha |-> None, parents |-> <<>>, author |-> None, committer |-> None,
     message |-> "", in_message |-> FALSE, err |-> FALSE]

\* one turn of the loop over the lines
parse_commit_line(f, line) ==
    IF line = "" THEN [f EXCEPT !.in_message = TRUE]
    ELSE IF f.in_message THEN [f EXCEPT !.message = @ \o line \o "\n"]
    ELSE IF is_some(strip_prefix(line, "tree "))
    THEN [f EXCEPT !.tree_sha = Some(unwrap(strip_prefix(line, "tree ")))]
    ELSE IF is_some(strip_prefix(line, "parent "))
    THEN [f EXCEPT !.parents = Append(@, unwrap(strip_prefix(line, "parent ")))]
    ELSE IF is_some(strip_prefix(line, "author "))
    THEN LET a == parse_author(unwrap(strip_prefix(line, "author ")))
         IN IF a = None THEN [f EXCEPT !.err = TRUE] ELSE [f EXCEPT !.author = a]
    ELSE IF is_some(strip_prefix(line, "committer "))
    THEN LET a == parse_author(unwrap(strip_prefix(line, "committer ")))
         IN IF a = None THEN [f EXCEPT !.err = TRUE] ELSE [f EXCEPT !.committer = a]
    ELSE [f EXCEPT !.err = TRUE]

RECURSIVE parse_commit_lines(_, _)
parse_commit_lines(f, ls) ==
    IF ls = <<>> \/ f.err THEN f
    ELSE parse_commit_lines(parse_commit_line(f, ls[1]), Tail(ls))

\* None is an Err; the digests are taken from their lines as they stand
parse_commit_content(content) ==
    LET f == parse_commit_lines(commit_fields, str_lines(content)) IN
    IF f.err \/ f.tree_sha = None \/ f.author = None \/ f.committer = None
    THEN None
    ELSE Some([tree_sha |-> unwrap(f.tree_sha), parents |-> f.parents,
               author |-> unwrap(f.author), committer |-> unwrap(f.committer),
               message |-> trim_end(f.message)])

----------------------------------------------------------------------------
(* src/src/repo.rs : trees from and to the index *)

is_file(node) == is_some(node.sha1)

\* <<store afterwards, digest of the tree of node>>
RECURSIVE write_tree_impl(_, _)
RECURSIVE write_tree_children(_, _, _, _)
write_tree_children(db, node, names, tree) ==
    IF names = <<>> THEN <<db, tree>>
    ELSE LET name == names[1]
             child == node.children[name]
         IN IF is_file(child)
            THEN write_tree_children(db, node, Tail(names),
                     add_entry(tree, "blob", unwrap(child.sha1), name))
            ELSE LET sub == write_tree_impl(db, child)
                 IN write_tree_children(sub[1], node, Tail(names),
                        add_entry(tree, "tree", sub[2], name))
\* write_tree_impl that hashes the tree but never writes it to the store
write_tree_impl_unstored(db, node) ==
    LET r == write_tree_children(db, node, SortNames(DOMAIN node.children), Tree_new)
    IN <<r[1], encoded_sha1(r[2])>>
write_tree_impl(db, node) ==
    LET r == write_tree_children(db, node, SortNames(DOMAIN node.children), Tree_new)
    IN store(r[1], r[2])

\* write_tree over the lines of the on-disk index
write_tree(db, lines) == write_tree_impl(db, Index_load(lines).root)

\* Some(sequence of <<path, digest>>), None when an object cannot be read
RECURSIVE collect_tree_files(_, _)
RECURSIVE collect_tree_entries(_, _, _)
collect_tree_entries(db, tree, names) ==
    IF names = <<>> THEN Some(<<>>)
    ELSE LET name == names[1]
             entry == tree.entries[name]
             rest == collect_tree_entries(db, tree, Tail(names))
             here == IF entry.object_type = "blob"
                     THEN Some(<<<<(<<name>>), entry.sha1>>>>)
                     ELSE IF entry.object_type = "tree"
                     THEN LET sub == collect_tree_files(db, entry.sha1)
                          IN IF is_some(sub)
                             THEN Some([i \in DOMAIN unwrap(sub) |->
                                        <<(<<name>>) \o unwrap(sub)[i][1],
                                          unwrap(sub)[i][2]>>])
                             ELSE None
                     ELSE None
         IN IF is_some(here) /\ is_some(rest)
            THEN Some(unwrap(here) \o unwrap(rest)) ELSE None
collect_tree_files(db, tree_sha) ==
    LET tree_data == retrieve(db, tree_sha) IN
    IF ~is_some(tree_data) THEN None
    ELSE IF unwrap(tree_data).type /= "tree" THEN None
    ELSE collect_tree_entries(db, unwrap(tree_data),
                              SortNames(DOMAIN unwrap(tree_data).entries))

\* Some(index built from the tree), None on error
\* read_tree that takes the files the root tree lists itself and no sub-tree
read_tree_flat(db, tree_root) ==
    LET files == collect_tree_files(db, tree_root) IN
    IF is_some(files)
    THEN Some(load_lines(Index_new, SelectSeq(unwrap(files), LAMBDA f : Len(f[1]) = 1)))
    ELSE None

read_tree(db, tree_root) ==
    LET files == collect_tree_files(db, tree_root) IN
    IF is_some(files) THEN Some(load_lines(Index_new, unwrap(files))) ELSE None

Paths_of(index) == {e[1] : e \in Entries(index)}

\* diff_index that marks an entry of the right side alone as Modified
diff_index_no_right_only(lhs, rhs) ==
    [name \in Paths_of(lhs) \cup Paths_of(rhs) |->
        IF name \notin Paths_of(rhs) THEN "LeftOnly"
        ELSE IF name \notin Paths_of(lhs) THEN "Modified"
        ELSE IF get_sha1(lhs, name) = get_sha1(rhs, name) THEN "Unmodified"
        ELSE "Modified"]

\* diff_index that compares the paths only, never the digests
diff_index_paths_only(lhs, rhs) ==
    [name \in Paths_of(lhs) \cup Paths_of(rhs) |->
        IF name \notin Paths_of(rhs) THEN "LeftOnly"
        ELSE IF name \notin Paths_of(lhs) THEN "RightOnly"
        ELSE "Unmodified"]

diff_index(lhs, rhs) ==
    [name \in Paths_of(lhs) \cup Paths_of(rhs) |->
        IF name \notin Paths_of(rhs) THEN "LeftOnly"
        ELSE IF name \notin Paths_of(lhs) THEN "RightOnly"
        ELSE IF get_sha1(lhs, name) = get_sha1(rhs, name) THEN "Unmodified"
        ELSE "Modified"]

----------------------------------------------------------------------------
(* src/src/repo.rs : branches and HEAD *)

\* a branch file holds a digest (Some) or the text "No commit" (None)
Branch_load(brs, name) ==
    IF name \in DOMAIN brs
    THEN Some([name |-> name, commit_sha |-> brs[name]])
    ELSE None

Branch_save(brs, branch) == (branch.name :> branch.commit_sha) @@ brs

Branch_remove(brs, name) == [n \in DOMAIN brs \ {name} |-> brs[n]]

Symbolic(name) == [kind |-> "Symbolic", name |-> name]

Detached(sha) == [kind |-> "Detached", sha |-> sha]

load_branch(brs, branch_name) == Branch_load(brs, branch_name)

\* Branch::save: the content written to the branch file
Branch_save_text(commit_sha) ==
    IF is_some(commit_sha) THEN unwrap(commit_sha) ELSE "No commit"

\* Branch::load of a branch file with the given content: its commit_sha
Branch_load_text(content) == from_str(trim(content))

\* Branch::load over the branch files in place; None when the file is missing
Branch_load_file(files, name) ==
    IF name \in DOMAIN files
    THEN Some([name |-> name, commit_sha |-> Branch_load_text(files[name])])
    ELSE None

\* Head::save: the content written to HEAD
Head_save_text(head) ==
    IF head.kind = "Symbolic" THEN "ref: " \o head.name \o "\n" ELSE head.sha

\* Head::load of a HEAD file with the given content; None is InvalidData
Head_load_text(content) ==
    LET stripped == strip_prefix(trim(content), "ref: ") IN
    IF is_some(stripped) THEN Some(Symbolic(unwrap(stripped)))
    ELSE IF is_some(from_str(trim(content)))
    THEN Some(Detached(unwrap(from_str(trim(content))))) ELSE None

get_current_commit(brs, head) ==
    IF head.kind = "Symbolic"
    THEN LET branch_result == Branch_load(brs, head.name)
         IN IF is_some(branch_result) THEN unwrap(branch_result).commit_sha
            ELSE None
    ELSE Some(head.sha)

\* Some(commit), None when the object is missing or is no commit
load_commit(db, encoded_sha) ==
    LET data == retrieve(db, encoded_sha) IN
    IF is_some(data) /\ unwrap(data).type = "commit" THEN data ELSE None

\* Some(blob), None when the object is missing or is no blob
load_blob(db, encoded_sha) ==
    LET data == retrieve(db, encoded_sha) IN
    IF is_some(data) /\ unwrap(data).type = "blob" THEN data ELSE None

Commits(db) == {d \in DOMAIN db : db[d].type = "commit"}

\* <<store afterwards, digest of the commit>>
commit_tree(db, tree_sha, parents, message, now) ==
    store(db, Commit_new(tree_sha, parents, now, message))

\* update_head that leaves the branch alone and points HEAD at the commit
update_head_detaching(brs, head, commit_sha) == <<brs, Detached(commit_sha)>>

\* update_head that rewrites HEAD but never saves the branch file
update_head_unsaved(brs, head, commit_sha) ==
    IF head.kind = "Symbolic" THEN <<brs, head>> ELSE <<brs, Detached(commit_sha)>>

\* <<branches afterwards, HEAD afterwards>>
update_head(brs, head, commit_sha) ==
    IF head.kind = "Symbolic"
    THEN <<Branch_save(brs, [name |-> head.name, commit_sha |-> Some(commit_sha)]),
           head>>
    ELSE <<brs, Detached(commit_sha)>>

\* first loop of find_lca: Some(first-parent ancestors of sha, sha included),
\* None when a commit cannot be loaded
RECURSIVE lca_ancestors(_, _)
\* a first loop that goes up from the second parent of a merge commit as well
lca_ancestors_all_parents(db, current) ==
    LET commit == load_commit(db, current) IN
    IF ~is_some(commit) THEN None
    ELSE IF \E i \in DOMAIN unwrap(commit).parents :
                ~is_some(lca_ancestors(db, unwrap(commit).parents[i]))
    THEN None
    ELSE Some({current} \cup UNION {unwrap(lca_ancestors(db, unwrap(commit).parents[i])) :
                                        i \in DOMAIN unwrap(commit).parents})
\* a first loop that marks lhs alone and none of its ancestors
lca_ancestors_tip_only(db, current) ==
    IF is_some(load_commit(db, current)) THEN Some({current}) ELSE None
lca_ancestors(db, current) ==
    LET commit == load_commit(db, current) IN
    IF ~is_some(commit) THEN None
    ELSE IF unwrap(commit).parents = <<>> THEN Some({current})
    ELSE LET rest == lca_ancestors(db, unwrap(commit).parents[1])
         IN IF is_some(rest) THEN Some({current} \cup unwrap(rest)) ELSE None

\* second loop of find_lca
RECURSIVE lca_walk(_, _, _)
lca_walk(db, ancestors, current_rhs) ==
    IF current_rhs \in ancestors THEN [st |-> "ok", lca |-> Some(current_rhs)]
    ELSE LET commit == load_commit(db, current_rhs) IN
         IF ~is_some(commit) THEN [st |-> "panic", lca |-> None]
         ELSE IF unwrap(commit).parents = <<>> THEN [st |-> "ok", lca |-> None]
         ELSE lca_walk(db, ancestors, unwrap(commit).parents[1])

\* find_lca whose second loop starts at the first parent of rhs
find_lca_skip_rhs(db, lhs, rhs) ==
    LET ancestors == lca_ancestors(db, lhs)
        commit == load_commit(db, rhs)
    IN IF ~is_some(ancestors) \/ ~is_some(commit) THEN [st |-> "panic", lca |-> None]
       ELSE IF unwrap(commit).parents = <<>> THEN [st |-> "ok", lca |-> None]
       ELSE lca_walk(db, unwrap(ancestors), unwrap(commit).parents[1])

find_lca(db, lhs, rhs) ==
    LET ancestors == lca_ancestors(db, lhs) IN
    IF ~is_some(ancestors) THEN [st |-> "panic", lca |-> None]
    ELSE lca_walk(db, unwrap(ancestors), rhs)

\* read_branch_to_index once the tree of the branch's commit is read
read_branch_to_index_tree(index) ==
    IF is_some(index) THEN [st |-> "ok", index |-> unwrap(index)]
    ELSE [st |-> "exit1", index |-> Index_new]

\* read_branch_to_index once the branch's commit is loaded
read_branch_to_index_commit(db, commit) ==
    IF ~is_some(commit) THEN [st |-> "panic", index |-> Index_new]
    ELSE read_branch_to_index_tree(read_tree(db, unwrap(commit).tree_sha))

\* read_branch_to_index once the branch file is loaded
read_branch_to_index_branch(db, branch) ==
    IF ~is_some(branch) THEN [st |-> "exit1", index |-> Index_new]
    ELSE IF is_some(unwrap(branch).commit_sha)
    THEN read_branch_to_index_commit(db,
             load_commit(db, unwrap(unwrap(branch).commit_sha)))
    ELSE [st |-> "ok", index |-> Index_new]

\* [st, index of the branch's commit]
read_branch_to_index(db, brs, branch_name) ==
    read_branch_to_index_branch(db, load_branch(brs, branch_name))

----------------------------------------------------------------------------
(* src/src/repo.rs : the working tree *)

\* a regular file is at path
file_exists(wt, path) == path \in DOMAIN wt /\ is_some(wt[path])

\* a directory is at path: some file lies strictly below it
dir_exists(wt, path) ==
    \E q \in DOMAIN wt :
        /\ is_some(wt[q])
        /\ Len(q) > Len(path)
        /\ SubSeq(q, 1, Len(path)) = path

\* path_exists that sees directories only
path_exists_dirs_only(wt, path) == dir_exists(wt, path)

path_exists(wt, path) == file_exists(wt, path) \/ dir_exists(wt, path)

write_file(wt, path, data) == (path :> Some(data)) @@ wt

remove_file(wt, path) == IF path \in DOMAIN wt THEN (path :> None) @@ wt ELSE wt

\* apply_status that writes new files but leaves changed files as they are
apply_status_new_only(wt, db, index, file, status) ==
    IF status = "LeftOnly" THEN remove_file(wt, file)
    ELSE IF status = "RightOnly"
    THEN LET sha == get_sha1(index, file) IN
         IF is_some(sha) /\ is_some(load_blob(db, unwrap(sha)))
         THEN write_file(wt, file, unwrap(load_blob(db, unwrap(sha))).data)
         ELSE wt
    ELSE wt

\* the second loop of checkout_index for one path
apply_status(wt, db, index, file, status) ==
    IF status = "LeftOnly" THEN remove_file(wt, file)
    ELSE IF status \in {"RightOnly", "Modified"}
    THEN LET sha == get_sha1(index, file) IN
         IF is_some(sha) /\ is_some(load_blob(db, unwrap(sha)))
         THEN write_file(wt, file, unwrap(load_blob(db, unwrap(sha))).data)
         ELSE wt
    ELSE wt

RECURSIVE apply_diff(_, _, _, _, _)
apply_diff(wt, db, index, diff, files) ==
    IF files = {} THEN wt
    ELSE LET file == CHOOSE f \in files : TRUE
         IN apply_diff(apply_status(wt, db, index, file, diff[file]),
                       db, index, diff, files \ {file})

\* the two loops of checkout_index over diff
checkout_index_diff(wt, db, index, diff) ==
    IF \E file \in DOMAIN diff : diff[file] = "RightOnly" /\ path_exists(wt, file)
    THEN [st |-> "exit1", wt |-> wt]
    ELSE [st |-> IF \E file \in DOMAIN diff :
                       /\ diff[file] \in {"RightOnly", "Modified"}
                       /\ is_some(get_sha1(index, file))
                       /\ ~is_some(load_blob(db, unwrap(get_sha1(index, file))))
                 THEN "exit1" ELSE "ok",
          wt |-> apply_diff(wt, db, index, diff, DOMAIN diff)]

\* checkout_index once the index of the current commit is read
checkout_index_current(wt, db, index, cur) ==
    IF cur.st /= "ok" THEN [st |-> cur.st, wt |-> wt]
    ELSE checkout_index_diff(wt, db, index, diff_index(cur.index, index))

\* [st, worktree afterwards]; exit1 before any write when an untracked
\* file is in the way, exit1 when a blob to write cannot be read
checkout_index(wt, db, brs, head, index) ==
    IF head.kind /= "Symbolic" THEN [st |-> "panic", wt |-> wt]
    ELSE checkout_index_current(wt, db, index,
             read_branch_to_index(db, brs, head.name))

\* checkout_save that rewrites HEAD but leaves the index file as it was
checkout_save_index_kept(wt, idx, head, branch_name, target, co) ==
    IF co.st /= "ok" THEN [st |-> co.st, wt |-> co.wt, idx |-> idx, head |-> head]
    ELSE [st |-> "ok", wt |-> co.wt, idx |-> idx, head |-> Symbolic(branch_name)]

\* the end of checkout: after checkout_index, save the index and HEAD
checkout_save(wt, idx, head, branch_name, target, co) ==
    IF co.st /= "ok" THEN [st |-> co.st, wt |-> co.wt, idx |-> idx, head |-> head]
    ELSE [st |-> "ok", wt |-> co.wt, idx |-> Some(Index_save(target.index)),
          head |-> Symbolic(branch_name)]

\* checkout once the index of the target branch is read
checkout_target(wt, idx, db, brs, head, branch_name, target) ==
    IF target.st /= "ok"
    THEN [st |-> target.st, wt |-> wt, idx |-> idx, head |-> head]
    ELSE checkout_save(wt, idx, head, branch_name, target,
                       checkout_index(wt, db, brs, head, target.index))

\* [st, worktree, index file, HEAD afterwards]
checkout(wt, idx, db, brs, head, branch_name) ==
    IF ~is_some(load_branch(brs, branch_name))
    THEN [st |-> "exit1", wt |-> wt, idx |-> idx, head |-> head]
    ELSE IF head.kind = "Symbolic" /\ head.name = branch_name
    THEN [st |-> "exit0", wt |-> wt, idx |-> idx, head |-> head]
    ELSE checkout_target(wt, idx, db, brs, head, branch_name,
                         read_branch_to_index(db, brs, branch_name))

----------------------------------------------------------------------------
(* src/src/repo.rs : staging *)

\* the repository directory D and its metadata directory, from the root
RepoDir == <<"/", "D">>

GitDir == RepoDir \o <<".git">>

\* std::path::absolute on a POSIX platform, with D the working directory: a
\* relative path is joined to D, "." components go, ".." components stay
absolute(path) ==
    IF path /= <<>> /\ path[1] = "/" THEN SelectSeq(path, LAMBDA c : c /= ".")
    ELSE RepoDir \o SelectSeq(path, LAMBDA c : c /= ".")

\* Path::starts_with: base is a prefix of path, component by component
starts_with(path, base) ==
    Len(path) >= Len(base) /\ SubSeq(path, 1, Len(base)) = base

\* the absolute path starts with D and not with D/.git
is_file_path_vaild(file_path) ==
    /\ file_path /= <<>>
    /\ starts_with(absolute(file_path), RepoDir)
    /\ ~starts_with(absolute(file_path), GitDir)

\* the absolute path with the prefix D stripped (called on valid paths)
turn_relative_path_to_repo_dir(file_path) ==
    SubSeq(absolute(file_path), Len(RepoDir) + 1, Len(absolute(file_path)))

\* update_index for a file that exists: store its blob, update the entry
update_index_stage(index, file_path, stored) ==
    [st |-> "ok",
     idx |-> Some(Index_save(update_entry(index, file_path, stored[2]))),
     db |-> stored[1]]

\* update_index for a missing file: remove its entry, an error if none
update_index_unstage(index, created, db, file_path) ==
    IF is_some(get_sha1(index, file_path))
    THEN [st |-> "ok",
          idx |-> Some(Index_save(remove_entry(index, file_path)[1])),
          db |-> db]
    ELSE [st |-> "err", idx |-> created, db |-> db]

\* update_index once the index file exists (created empty if it did not)
update_index_loaded(wt, created, db, file_path) ==
    IF file_exists(wt, file_path)
    THEN update_index_stage(Index_load(unwrap(created)),
                            turn_relative_path_to_repo_dir(file_path),
                            store(db, Blob(unwrap(wt[file_path]))))
    ELSE update_index_unstage(Index_load(unwrap(created)), created, db,
                              turn_relative_path_to_repo_dir(file_path))

\* [st, index file, store afterwards]
update_index(wt, idx, db, file_path) ==
    IF ~is_file_path_vaild(file_path) THEN [st |-> "err", idx |-> idx, db |-> db]
    ELSE IF path_exists(wt, file_path) /\ ~file_exists(wt, file_path)
    THEN [st |-> "err", idx |-> idx, db |-> db]
    ELSE update_index_loaded(wt, IF is_some(idx) THEN idx ELSE Some(<<>>),
                             db, file_path)

\* the regular files WalkDir finds below a directory, in some fixed order
RECURSIVE SetToSeq(_)
SetToSeq(S) ==
    IF S = {} THEN <<>>
    ELSE LET x == CHOOSE y \in S : TRUE IN <<x>> \o SetToSeq(S \ {x})

walk_files(wt, dir) ==
    SetToSeq({q \in DOMAIN wt : /\ is_some(wt[q])
                                /\ Len(q) > Len(dir)
                                /\ SubSeq(q, 1, Len(dir)) = dir
                                /\ is_file_path_vaild(q)})

\* the single files one add or rm argument stands for
expand_arg(wt, file) ==
    IF dir_exists(wt, file) THEN walk_files(wt, file) ELSE <<file>>

\* add_single_file over a list of files; exit code 1 at the first error
RECURSIVE add_files(_, _, _, _)
\* the step of add_files after update_index on the first file
add_single_file(wt, files, r) ==
    IF r.st /= "ok" THEN [st |-> "exit1", wt |-> wt, idx |-> r.idx, db |-> r.db]
    ELSE add_files(wt, r.idx, r.db, Tail(files))

\* [st, worktree, index file, store afterwards]
add_files(wt, idx, db, files) ==
    IF files = <<>> THEN [st |-> "ok", wt |-> wt, idx |-> idx, db |-> db]
    ELSE add_single_file(wt, files, update_index(wt, idx, db, files[1]))

\* rm_single_file over a list of files
RECURSIVE rm_files(_, _, _, _)
\* the step of rm_files after the file is deleted and update_index has run
rm_single_file(wt2, files, r) ==
    IF r.st /= "ok" THEN [st |-> "exit1", wt |-> wt2, idx |-> r.idx, db |-> r.db]
    ELSE rm_files(wt2, r.idx, r.db, Tail(files))

\* [st, worktree, index file, store afterwards]
rm_files(wt, idx, db, files) ==
    IF files = <<>> THEN [st |-> "ok", wt |-> wt, idx |-> idx, db |-> db]
    ELSE IF ~is_some(idx) THEN [st |-> "panic", wt |-> wt, idx |-> idx, db |-> db]
    ELSE IF ~is_some(get_sha1(Index_load(unwrap(idx)), files[1]))
    THEN [st |-> "exit1", wt |-> wt, idx |-> idx, db |-> db]
    ELSE IF ~file_exists(wt, files[1])
    THEN [st |-> "exit1", wt |-> wt, idx |-> idx, db |-> db]
    ELSE rm_single_file(remove_file(wt, files[1]), files,
             update_index(remove_file(wt, files[1]), idx, db, files[1]))

----------------------------------------------------------------------------
(* src/src/repo.rs : status *)

\* the lines status prints for a diff: <<kind, path>> per changed path
status_lines(diff) ==
    {<<"Deleted", name>> : name \in {n \in DOMAIN diff : diff[n] = "LeftOnly"}}
    \cup {<<"New", name>> : name \in {n \in DOMAIN diff : diff[n] = "RightOnly"}}
    \cup {<<"Modified", name>> : name \in {n \in DOMAIN diff : diff[n] = "Modified"}}

\* status_report that prints no line for a path whose digest changed
status_report_unmodified(idx, current_commit_index) ==
    IF ~is_some(idx) \/ ~is_some(current_commit_index)
    THEN [st |-> "exit1", report |-> {}]
    ELSE [st |-> "ok",
          report |-> {l \in status_lines(diff_index(unwrap(current_commit_index),
                                                     Index_load(unwrap(idx)))) :
                          l[1] /= "Modified"}]

\* status once the current commit is loaded: the index file against the
\* index read from the commit's tree
status_report(idx, current_commit_index) ==
    IF ~is_some(idx) \/ ~is_some(current_commit_index)
    THEN [st |-> "exit1", report |-> {}]
    ELSE [st |-> "ok",
          report |-> status_lines(diff_index(unwrap(current_commit_index),
                                             Index_load(unwrap(idx))))]

\* status once HEAD is resolved to a commit digest
status_commit(idx, db, commit_sha, current_commit) ==
    IF ~is_some(current_commit) THEN [st |-> "exit1", report |-> {}]
    ELSE status_report(idx, read_tree(db, unwrap(current_commit).tree_sha))

\* Repository::status: [st, lines printed]
status(idx, db, brs, head) ==
    IF head.kind = "Symbolic" /\ ~is_some(Branch_load(brs, head.name))
    THEN [st |-> "exit1", report |-> {}]
    ELSE IF ~is_some(get_current_commit(brs, head))
    THEN [st |-> "no_commits", report |-> {}]
    ELSE status_commit(idx, db, unwrap(get_current_commit(brs, head)),
                       load_commit(db, unwrap(get_current_commit(brs, head))))

----------------------------------------------------------------------------
(* src/src/repo.rs : commit *)

\* commit_store that records the commit without its parents
commit_store_orphan(tree, brs, head, parents, message, now) ==
    LET c == commit_tree(tree[1], tree[2], <<>>, message, now)
        h == update_head(brs, head, c[2])
    IN [outcome |-> "committed", db |-> c[1], brs |-> h[1], head |-> h[2]]

\* the end of commit: store the commit object and advance HEAD
commit_store(tree, brs, head, parents, message, now) ==
    LET c == commit_tree(tree[1], tree[2], parents, message, now)
        h == update_head(brs, head, c[2])
    IN [outcome |-> "committed", db |-> c[1], brs |-> h[1], head |-> h[2]]

\* commit_parent without the comparison of the new tree with the parent's
commit_parent_unchecked(db, brs, head, message, now, tree, parent, parent_commit) ==
    IF ~is_some(parent_commit)
    THEN [outcome |-> "panic", db |-> tree[1], brs |-> brs, head |-> head]
    ELSE commit_store(tree, brs, head, <<unwrap(parent)>>, message, now)

\* commit with a parent: no commit when the new tree is the parent's tree
commit_parent(db, brs, head, message, now, tree, parent, parent_commit) ==
    IF ~is_some(parent_commit)
    THEN [outcome |-> "panic", db |-> tree[1], brs |-> brs, head |-> head]
    ELSE IF tree[2] = unwrap(parent_commit).tree_sha
    THEN [outcome |-> "no_changes", db |-> tree[1], brs |-> brs, head |-> head]
    ELSE commit_store(tree, brs, head, <<unwrap(parent)>>, message, now)

\* commit once the tree of the index is written
commit_written(db, brs, head, message, now, tree, parent) ==
    IF is_some(parent)
    THEN commit_parent(db, brs, head, message, now, tree, parent,
                       load_commit(tree[1], unwrap(parent)))
    ELSE commit_store(tree, brs, head, <<>>, message, now)

\* [outcome, store, branches, HEAD afterwards]
commit(idx, db, brs, head, message, now) ==
    IF message = ""
    THEN [outcome |-> "empty_message", db |-> db, brs |-> brs, head |-> head]
    ELSE IF ~is_some(idx)
    THEN [outcome |-> "panic", db |-> db, brs |-> brs, head |-> head]
    ELSE commit_written(db, brs, head, message, now,
                        write_tree(db, unwrap(idx)), get_current_commit(brs, head))

\* how the process ends on each path through commit: Some(code) where the
\* path ends the process (std::process::exit, or a panic of an unwrap), None
\* where commit returns to its caller
commit_exit(outcome) ==
    CASE outcome = "empty_message" -> Some(0)
      [] outcome = "no_changes" -> Some(0)
      [] outcome = "panic" -> Some(101)
      [] outcome = "committed" -> None

\* Repository::add over the argument list
RECURSIVE add(_, _, _, _)
\* add stops at the first argument that fails
add_rest(files, r) ==
    IF r.st /= "ok" THEN r ELSE add(r.wt, r.idx, r.db, Tail(files))

\* [st, worktree, index file, store afterwards]
add(wt, idx, db, files) ==
    IF files = <<>> THEN [st |-> "ok", wt |-> wt, idx |-> idx, db |-> db]
    ELSE add_rest(files, add_files(wt, idx, db, expand_arg(wt, files[1])))

\* Repository::rm over the argument list
RECURSIVE rm(_, _, _, _)
\* rm stops at the first argument that fails
rm_rest(files, r) ==
    IF r.st /= "ok" THEN r ELSE rm(r.wt, r.idx, r.db, Tail(files))

\* [st, worktree, index file, store afterwards]
rm(wt, idx, db, files) ==
    IF files = <<>> THEN [st |-> "ok", wt |-> wt, idx |-> idx, db |-> db]
    ELSE rm_rest(files, rm_files(wt, idx, db, expand_arg(wt, files[1])))

----------------------------------------------------------------------------
(* src/src/repo.rs : merge *)

get_conflict_text(cur_text, branch_text) ==
    "<<<<<<< HEAD\n" \o cur_text \o "=======\n" \o branch_text \o ">>>>>>>"

\* handle_conflict_text that stores the blob but leaves the entry of path
handle_conflict_text_unindexed(path, cur_content, branch_content, index, db) ==
    <<index, store(db, Blob(get_conflict_text(cur_content, branch_content)))[1]>>

\* <<index, store afterwards>>
handle_conflict_text(path, cur_content, branch_content, index, db) ==
    LET stored == store(db, Blob(get_conflict_text(cur_content, branch_content)))
    IN <<update_entry(index, path, stored[2]), stored[1]>>

handle_conflict(path, cur_blob_sha, branch_blob_sha, index, db) ==
    handle_conflict_text(path, unwrap(load_blob(db, cur_blob_sha)).data,
                         unwrap(load_blob(db, branch_blob_sha)).data, index, db)

handle_deletion_conflict(path, blob_sha, is_cur_content, index, db) ==
    LET content == unwrap(load_blob(db, blob_sha)).data IN
    IF is_cur_content THEN handle_conflict_text(path, content, "", index, db)
    ELSE handle_conflict_text(path, "", content, index, db)

\* the status a diff gives a path, None when the diff has no such key
diff_get(diff, file_path) ==
    IF file_path \in DOMAIN diff THEN Some(diff[file_path]) ELSE None

\* the result of merge_file on a conflict: h = <<index, store afterwards>>
merge_conflict(h) == [st |-> "ok", index |-> h[1], db |-> h[2], conflict |-> TRUE]

\* a loop body that takes two changes of one path for a conflict whether
\* or not they agree
merge_file_strict(file_path, cur_index, branch_index, diff_lca_cur, diff_lca_branch, index, db) ==
    IF /\ file_path \in DOMAIN diff_lca_cur /\ file_path \in DOMAIN diff_lca_branch
       /\ diff_lca_cur[file_path] = diff_lca_branch[file_path]
       /\ diff_lca_cur[file_path] \in {"Modified", "RightOnly"}
    THEN merge_conflict(handle_conflict(file_path,
                            unwrap(get_sha1(cur_index, file_path)),
                            unwrap(get_sha1(branch_index, file_path)), index, db))
    ELSE [st |-> "ok", index |-> index, db |-> db, conflict |-> FALSE]

\* one iteration of the merge loop: [st, index, db, conflict]
merge_file(file_path, cur_index, branch_index, diff_lca_cur, diff_lca_branch, index, db) ==
    LET cur_status == diff_get(diff_lca_cur, file_path)
        branch_status == diff_get(diff_lca_branch, file_path)
        keep == [st |-> "ok", index |-> index, db |-> db, conflict |-> FALSE]
    IN IF is_some(cur_status) /\ is_some(branch_status)
       THEN LET cs == unwrap(cur_status)
                bs == unwrap(branch_status)
            IN IF (cs = "Modified" /\ bs = "Modified")
                  \/ (cs = "RightOnly" /\ bs = "RightOnly")
               THEN LET cur_sha == unwrap(get_sha1(cur_index, file_path))
                        branch_sha == unwrap(get_sha1(branch_index, file_path))
                    IN IF cur_sha /= branch_sha
                       THEN merge_conflict(handle_conflict(file_path, cur_sha,
                                                           branch_sha, index, db))
                       ELSE keep
               ELSE IF (cs = "LeftOnly" /\ bs = "Modified")
                       \/ (cs = "Modified" /\ bs = "LeftOnly")
               THEN merge_conflict(
                        IF cs = "LeftOnly"
                        THEN handle_deletion_conflict(file_path,
                                 unwrap(get_sha1(branch_index, file_path)),
                                 FALSE, index, db)
                        ELSE handle_deletion_conflict(file_path,
                                 unwrap(get_sha1(cur_index, file_path)),
                                 TRUE, index, db))
               ELSE IF cs = "Unmodified" /\ bs = "Modified"
               THEN [keep EXCEPT !.index = update_entry(index, file_path,
                                     unwrap(get_sha1(branch_index, file_path)))]
               ELSE IF cs = "Unmodified" /\ bs = "LeftOnly"
               THEN [keep EXCEPT !.index = remove_entry(index, file_path)[1]]
               ELSE keep
       ELSE IF ~is_some(branch_status)
       THEN IF unwrap(cur_status) = "RightOnly" THEN keep
            ELSE [keep EXCEPT !.st = "panic"]
       ELSE IF unwrap(branch_status) = "RightOnly"
            THEN [keep EXCEPT !.index = update_entry(index, file_path,
                                  unwrap(get_sha1(branch_index, file_path)))]
            ELSE [keep EXCEPT !.st = "panic"]

RECURSIVE merge_files(_, _, _, _, _, _, _)
\* the merge loop after its body has run on file_path with result r
merge_files_rest(all_files, file_path, cur_index, branch_index, diff_lca_cur, diff_lca_branch, r) ==
    IF r.st /= "ok" THEN r
    ELSE LET rest == merge_files(all_files \ {file_path}, cur_index, branch_index,
                                 diff_lca_cur, diff_lca_branch, r.index, r.db)
         IN [rest EXCEPT !.conflict = r.conflict \/ rest.conflict]

\* a loop body that skips the files the current side's diff does not name
merge_files_step_cur_only(all_files, file_path, cur_index, branch_index, diff_lca_cur, diff_lca_branch, index, db) ==
    merge_files_rest(all_files, file_path, cur_index, branch_index,
                     diff_lca_cur, diff_lca_branch,
                     IF file_path \in DOMAIN diff_lca_cur
                     THEN merge_file(file_path, cur_index, branch_index,
                                     diff_lca_cur, diff_lca_branch, index, db)
                     ELSE [st |-> "ok", index |-> index, db |-> db,
                           conflict |-> FALSE])

\* one iteration of the merge loop, on file_path
merge_files_step(all_files, file_path, cur_index, branch_index, diff_lca_cur, diff_lca_branch, index, db) ==
    merge_files_rest(all_files, file_path, cur_index, branch_index,
                     diff_lca_cur, diff_lca_branch,
                     merge_file(file_path, cur_index, branch_index,
                                diff_lca_cur, diff_lca_branch, index, db))

\* the merge loop over all_files
merge_files(all_files, cur_index, branch_index, diff_lca_cur, diff_lca_branch, index, db) ==
    IF all_files = {}
    THEN [st |-> "ok", index |-> index, db |-> db, conflict |-> FALSE]
    ELSE merge_files_step(all_files, CHOOSE f \in all_files : TRUE, cur_index,
                          branch_index, diff_lca_cur, diff_lca_branch, index, db)

\* the merge loop taking the paths in the order given: all_files is a
\* HashSet, which hands its elements out in an order that differs from one
\* run of the program to the next
RECURSIVE merge_files_in(_, _, _, _, _, _, _)
merge_files_in(order, cur_index, branch_index, diff_lca_cur, diff_lca_branch, index, db) ==
    IF order = <<>>
    THEN [st |-> "ok", index |-> index, db |-> db, conflict |-> FALSE]
    ELSE LET r == merge_file(order[1], cur_index, branch_index, diff_lca_cur,
                             diff_lca_branch, index, db)
         IN IF r.st /= "ok" THEN r
            ELSE LET rest == merge_files_in(Tail(order), cur_index, branch_index,
                                            diff_lca_cur, diff_lca_branch,
                                            r.index, r.db)
                 IN [rest EXCEPT !.conflict = r.conflict \/ rest.conflict]

\* fast_forward_update that forgets to point HEAD back at the current branch
fast_forward_update_head_moved(wt, idx, brs, head, target_branch, co) ==
    IF co.st /= "ok"
    THEN [st |-> co.st, wt |-> co.wt, idx |-> idx, brs |-> brs, head |-> head]
    ELSE IF head.kind = "Symbolic" /\ is_some(Branch_load(brs, head.name))
    THEN [st |-> "ok", wt |-> co.wt, idx |-> co.idx,
          brs |-> Branch_save(brs, [name |-> head.name,
                                    commit_sha |-> target_branch.commit_sha]),
          head |-> co.head]
    ELSE [st |-> "panic", wt |-> co.wt, idx |-> co.idx, brs |-> brs,
          head |-> co.head]

\* the end of fast_forward: after checkout, move the current branch (or the
\* detached HEAD) to the target's commit and restore HEAD
fast_forward_update(wt, idx, brs, head, target_branch, co) ==
    IF co.st /= "ok"
    THEN [st |-> co.st, wt |-> co.wt, idx |-> idx, brs |-> brs, head |-> head]
    ELSE IF head.kind = "Symbolic"
    THEN IF ~is_some(Branch_load(brs, head.name))
         THEN [st |-> "panic", wt |-> co.wt, idx |-> co.idx, brs |-> brs,
               head |-> co.head]
         ELSE [st |-> "ok", wt |-> co.wt, idx |-> co.idx,
               brs |-> Branch_save(brs,
                           [name |-> unwrap(Branch_load(brs, head.name)).name,
                            commit_sha |-> target_branch.commit_sha]),
               head |-> head]
    ELSE [st |-> "ok", wt |-> co.wt, idx |-> co.idx, brs |-> brs,
          head |-> Detached(unwrap(target_branch.commit_sha))]

\* [st, worktree, index file, branches, HEAD afterwards]
fast_forward(wt, idx, db, brs, head, target_branch_name) ==
    IF ~is_some(load_branch(brs, target_branch_name))
    THEN [st |-> "panic", wt |-> wt, idx |-> idx, brs |-> brs, head |-> head]
    ELSE fast_forward_update(wt, idx, brs, head,
             unwrap(load_branch(brs, target_branch_name)),
             checkout(wt, idx, db, brs, head, target_branch_name))

\* exit code of a handler that ended in state st
ExitCode(st) == IF st \in {"ok", "exit0"} THEN 0 ELSE IF st = "panic" THEN 101 ELSE 1

\* merge ends and leaves the repository s = [wt, idx, db, brs, head] as it is
merge_end(s, outcome, exit) ==
    [outcome |-> outcome, exit |-> exit, wt |-> s.wt, idx |-> s.idx,
     db |-> s.db, brs |-> s.brs, head |-> s.head]

\* the end of merge: after checkout_index, write the tree, commit, move HEAD
merge_commit(s, branch_name, now, current_commit_sha, branch_commit_sha, merged, saved, co) ==
    IF co.st /= "ok"
    THEN [outcome |-> IF co.st = "exit1" THEN "untracked" ELSE co.st,
          exit |-> ExitCode(co.st), wt |-> co.wt, idx |-> saved,
          db |-> merged.db, brs |-> s.brs, head |-> s.head]
    ELSE LET tree == write_tree(merged.db, unwrap(saved))
             c == commit_tree(tree[1], tree[2],
                              <<current_commit_sha, branch_commit_sha>>,
                              "Merge " \o branch_name, now)
             h == update_head(s.brs, s.head, c[2])
         IN [outcome |-> IF merged.conflict THEN "merged_conflict" ELSE "merged",
             exit |-> 0, wt |-> co.wt, idx |-> saved, db |-> c[1],
             brs |-> h[1], head |-> h[2]]

\* merge after the loop: save the index, then update the working tree
merge_checkout(s, branch_name, now, current_commit_sha, branch_commit_sha, merged) ==
    IF merged.st /= "ok" THEN [merge_end(s, "panic", 101) EXCEPT !.db = merged.db]
    ELSE merge_commit(s, branch_name, now, current_commit_sha, branch_commit_sha,
                      merged, Some(Index_save(merged.index)),
                      checkout_index(s.wt, merged.db, s.brs, s.head, merged.index))

\* merge once both diffs against the common ancestor are taken
merge_diffs(s, branch_name, now, current_commit_sha, branch_commit_sha, index, current_commit_index, branch_index, diff_lca_cur, diff_lca_branch) ==
    merge_checkout(s, branch_name, now, current_commit_sha, branch_commit_sha,
        merge_files(DOMAIN diff_lca_cur \cup DOMAIN diff_lca_branch,
                    current_commit_index, branch_index,
                    diff_lca_cur, diff_lca_branch, index, s.db))

\* merge once the trees of the branch and of the common ancestor are read
merge_indices(s, branch_name, now, current_commit_sha, branch_commit_sha, index, current_commit_index, bi, li) ==
    IF ~is_some(bi) \/ ~is_some(li) THEN merge_end(s, "panic", 101)
    ELSE merge_diffs(s, branch_name, now, current_commit_sha, branch_commit_sha,
                     index, current_commit_index, unwrap(bi),
                     diff_index(unwrap(li), current_commit_index),
                     diff_index(unwrap(li), unwrap(bi)))

\* the three-way merge, once the two other commits are loaded
merge_three_way(s, branch_name, now, current_commit_sha, branch_commit_sha, index, current_commit_index, branch_commit, lca_commit) ==
    IF ~is_some(branch_commit) \/ ~is_some(lca_commit)
    THEN merge_end(s, "panic", 101)
    ELSE merge_indices(s, branch_name, now, current_commit_sha, branch_commit_sha,
                       index, current_commit_index,
                       read_tree(s.db, unwrap(branch_commit).tree_sha),
                       read_tree(s.db, unwrap(lca_commit).tree_sha))

\* the result of merge when it fast-forwards
merge_fast_forward(s, ff) ==
    [outcome |-> IF ff.st = "ok" THEN "fast_forward"
                 ELSE IF ff.st = "exit1" THEN "untracked" ELSE ff.st,
     exit |-> ExitCode(ff.st), wt |-> ff.wt, idx |-> ff.idx, db |-> s.db,
     brs |-> ff.brs, head |-> ff.head]

\* merge once the common ancestor is searched
merge_lca(s, branch_name, now, current_commit_sha, branch_commit_sha, index, current_commit_index, found) ==
    IF found.st /= "ok" THEN merge_end(s, "panic", 101)
    ELSE IF ~is_some(found.lca) THEN merge_end(s, "no_lca", 1)
    ELSE IF unwrap(found.lca) = current_commit_sha
    THEN merge_fast_forward(s,
             fast_forward(s.wt, s.idx, s.db, s.brs, s.head, branch_name))
    ELSE IF unwrap(found.lca) = branch_commit_sha THEN merge_end(s, "noop", 0)
    ELSE merge_three_way(s, branch_name, now, current_commit_sha,
                         branch_commit_sha, index, current_commit_index,
                         load_commit(s.db, branch_commit_sha),
                         load_commit(s.db, unwrap(found.lca)))

\* merge once the branch to merge is loaded
merge_branch(s, branch_name, now, current_commit_sha, index, current_commit_index, branch) ==
    IF ~is_some(branch) THEN merge_end(s, "no_branch", 1)
    ELSE IF ~is_some(unwrap(branch).commit_sha) THEN merge_end(s, "no_commit", 1)
    ELSE IF unwrap(unwrap(branch).commit_sha) = current_commit_sha
    THEN merge_end(s, "self", 1)
    ELSE merge_lca(s, branch_name, now, current_commit_sha,
                   unwrap(unwrap(branch).commit_sha), index, current_commit_index,
                   find_lca(s.db, current_commit_sha,
                            unwrap(unwrap(branch).commit_sha)))

\* merge refuses to start when the index differs from the current commit
merge_clean(s, branch_name, now, current_commit_sha, index, current_commit_index, diff) ==
    IF \E f \in DOMAIN diff : diff[f] /= "Unmodified" THEN merge_end(s, "dirty", 1)
    ELSE merge_branch(s, branch_name, now, current_commit_sha, index,
                      current_commit_index, Branch_load(s.brs, branch_name))

\* merge once the tree of the current commit is read
merge_current_index(s, branch_name, now, current_commit_sha, index, cci) ==
    IF ~is_some(cci) THEN merge_end(s, "panic", 101)
    ELSE merge_clean(s, branch_name, now, current_commit_sha, index, unwrap(cci),
                     diff_index(unwrap(cci), index))

\* merge once the current commit is loaded
merge_current(s, branch_name, now, current_commit_sha, index, current_commit) ==
    IF ~is_some(current_commit) THEN merge_end(s, "panic", 101)
    ELSE merge_current_index(s, branch_name, now, current_commit_sha, index,
             read_tree(s.db, unwrap(current_commit).tree_sha))

\* merge on the repository s = [wt, idx, db, brs, head]
merge_repository(s, branch_name, now, current_commit_sha) ==
    IF ~is_some(current_commit_sha) \/ ~is_some(s.idx)
    THEN merge_end(s, "panic", 101)
    ELSE merge_current(s, branch_name, now, unwrap(current_commit_sha),
                       Index_load(unwrap(s.idx)),
                       load_commit(s.db, unwrap(current_commit_sha)))

\* [outcome, exit, worktree, index file, store, branches, HEAD afterwards]
merge(wt, idx, db, brs, head, branch_name, now) ==
    merge_repository([wt |-> wt, idx |-> idx, db |-> db, brs |-> brs, head |-> head],
                     branch_name, now, get_current_commit(brs, head))

----------------------------------------------------------------------------
(* src/src/repo.rs : the writes of commit and merge, in program order *)

\* a write to the object store and a rewrite of the branch file or HEAD
StoreWrite(obj) == [kind |-> "store", obj |-> obj, sha |-> encoded_sha1(obj)]

RefWrite(commit_sha) == [kind |-> "ref", obj |-> None, sha |-> commit_sha]

\* the Tree write_tree_impl builds for node
tree_of(node) ==
    write_tree_children(<<>>, node, SortNames(DOMAIN node.children), Tree_new)[2]

\* the stores write_tree_impl makes for node: in the loop over the children
\* the recursive call of each directory, after the loop the tree of node
RECURSIVE write_tree_writes(_)
RECURSIVE write_tree_writes_children(_, _)
write_tree_writes_children(node, names) ==
    IF names = <<>> THEN <<>>
    ELSE (IF is_file(node.children[names[1]]) THEN <<>>
          ELSE write_tree_writes(node.children[names[1]]))
         \o write_tree_writes_children(node, Tail(names))
\* a write_tree_impl that stores the tree of node before its sub-trees
write_tree_writes_parent_first(node) ==
    <<StoreWrite(tree_of(node))>>
    \o write_tree_writes_children(node, SortNames(DOMAIN node.children))
write_tree_writes(node) ==
    write_tree_writes_children(node, SortNames(DOMAIN node.children))
    \o <<StoreWrite(tree_of(node))>>

\* the writes of commit_tree and update_head for a tree already written
commit_tree_writes(tree_sha, parents, message, now) ==
    <<StoreWrite(Commit_new(tree_sha, parents, now, message)),
      RefWrite(encoded_sha1(Commit_new(tree_sha, parents, now, message)))>>

\* the writes of commit after write_tree made the stores tw
commit_writes_parent(db, message, now, tw, parent) ==
    IF ~is_some(parent)
    THEN tw \o commit_tree_writes(tw[Len(tw)].sha, <<>>, message, now)
    ELSE IF ~is_some(load_commit(db, unwrap(parent))) THEN tw
    ELSE IF tw[Len(tw)].sha = unwrap(load_commit(db, unwrap(parent))).tree_sha THEN tw
    ELSE tw \o commit_tree_writes(tw[Len(tw)].sha, <<unwrap(parent)>>, message, now)

\* the writes of Repository::commit to the store and to the refs
commit_writes(idx, db, brs, head, message, now) ==
    IF message = "" \/ ~is_some(idx) THEN <<>>
    ELSE commit_writes_parent(db, message, now,
             write_tree_writes(Index_load(unwrap(idx)).root),
             get_current_commit(brs, head))

\* the objects of a set as StoreWrites, one after the other
RECURSIVE store_writes(_)
store_writes(objs) ==
    IF objs = {} THEN <<>>
    ELSE LET o == CHOOSE x \in objs : TRUE
         IN <<StoreWrite(o)>> \o store_writes(objs \ {o})

\* the merge loop of a three-way merge of branch_name, run from the
\* repository s on the trees of the current commit, the branch's commit and
\* their common ancestor
merge_loop_trees(s, cci, bi, li) ==
    merge_files(DOMAIN diff_index(li, cci) \cup DOMAIN diff_index(li, bi), cci, bi,
                diff_index(li, cci), diff_index(li, bi),
                Index_load(unwrap(s.idx)), s.db)

merge_loop_commits(s, cur, br, lca) ==
    merge_loop_trees(s,
        unwrap(read_tree(s.db, unwrap(load_commit(s.db, cur)).tree_sha)),
        unwrap(read_tree(s.db, unwrap(load_commit(s.db, br)).tree_sha)),
        unwrap(read_tree(s.db, unwrap(load_commit(s.db, lca)).tree_sha)))

merge_loop(s, branch_name) ==
    merge_loop_commits(s, unwrap(get_current_commit(s.brs, s.head)),
        unwrap(s.brs[branch_name]),
        unwrap(find_lca(s.db, unwrap(get_current_commit(s.brs, s.head)),
                        unwrap(s.brs[branch_name])).lca))

\* the writes of a three-way merge whose loop ended with merged: the conflict
\* blobs the loop stored, then, unless checkout_index ended the process, the
\* trees of the saved index, the merge commit and the branch pointer
merge_writes_after_loop(s, branch_name, now, merged, tw) ==
    store_writes({merged.db[d] : d \in DOMAIN merged.db \ DOMAIN s.db})
    \o (IF checkout_index(s.wt, merged.db, s.brs, s.head, merged.index).st /= "ok"
        THEN <<>>
        ELSE tw \o commit_tree_writes(tw[Len(tw)].sha,
                       <<unwrap(get_current_commit(s.brs, s.head)),
                         unwrap(s.brs[branch_name])>>,
                       "Merge " \o branch_name, now))

\* the writes of Repository::merge, in a three-way merge, to the store and
\* to the refs
merge_writes_loop(s, branch_name, now, merged) ==
    merge_writes_after_loop(s, branch_name, now, merged,
        write_tree_writes(Index_load(Index_save(merged.index)).root))

merge_writes(s, branch_name, now) ==
    merge_writes_loop(s, branch_name, now, merge_loop(s, branch_name))

\* the store and the refs after one write
apply_write(s, w) ==
    IF w.kind = "store" THEN [s EXCEPT !.db = store(s.db, w.obj)[1]]
    ELSE [s EXCEPT !.brs = update_head(s.brs, s.head, w.sha)[1],
                   !.head = update_head(s.brs, s.head, w.sha)[2]]

\* the store and the refs after the first n writes of ws
RECURSIVE after_writes(_, _, _)
after_writes(s, ws, n) ==
    IF n = 0 THEN s ELSE apply_write(after_writes(s, ws, n - 1), ws[n])

----------------------------------------------------------------------------
(* The state machine *)

\* the state Repository::init leaves in an empty directory
Init ==
    /\ worktree = [p \in Paths |-> None]
    /\ index_file = None
    /\ objects = <<>>
    /\ HEAD = Symbolic("master")
    /\ branches = Branch_save(<<>>,
                      [name |-> "master",
                       commit_sha |-> get_current_commit(<<>>, Symbolic("master"))])
    /\ last = "init"
    /\ mem_index = Index_new

\* last names the latest operation that changed the repository or the
\* working tree; an operation that changes nothing leaves no trace
Record(op) ==
    /\ last' = IF <<worktree, index_file, objects, branches, HEAD>>'
                   = <<worktree, index_file, objects, branches, HEAD>>
                THEN last ELSE op
    /\ UNCHANGED mem_index

\* the user writes a file of the working tree
WriteFile(p, data) ==
    /\ worktree' = write_file(worktree, p, data)
    /\ UNCHANGED <<index_file, objects, branches, HEAD>>
    /\ Record("write")

\* the user deletes a file of the working tree
DeleteFile(p) ==
    /\ file_exists(worktree, p)
    /\ worktree' = remove_file(worktree, p)
    /\ UNCHANGED <<index_file, objects, branches, HEAD>>
    /\ Record("delete")

Add(files) ==
    \E r \in {add(worktree, index_file, objects, files)} :
    /\ index_file' = r.idx
    /\ objects' = r.db
    /\ UNCHANGED <<worktree, branches, HEAD>>
    /\ Record("add")

Rm(files) ==
    \E r \in {rm(worktree, index_file, objects, files)} :
    /\ worktree' = r.wt
    /\ index_file' = r.idx
    /\ objects' = r.db
    /\ UNCHANGED <<branches, HEAD>>
    /\ Record("rm")

Commit(message, now) ==
    \E r \in {commit(index_file, objects, branches, HEAD, message, now)} :
    /\ Cardinality(Commits(objects)) < MaxCommits
    /\ objects' = r.db
    /\ branches' = r.brs
    /\ HEAD' = r.head
    /\ UNCHANGED <<worktree, index_file>>
    /\ Record("commit")

\* branch that writes the branch file over an existing one
branch_overwriting(brs, head, name) ==
    [outcome |-> "ok",
     brs |-> Branch_save(brs, [name |-> name,
                               commit_sha |-> get_current_commit(brs, head)])]

\* Repository::branch: [outcome, branches afterwards]
branch(brs, head, name) ==
    IF is_some(Branch_load(brs, name)) THEN [outcome |-> "exists", brs |-> brs]
    ELSE [outcome |-> "ok",
          brs |-> Branch_save(brs, [name |-> name,
                                    commit_sha |-> get_current_commit(brs, head)])]

\* rm_branch without the test for the branch HEAD names
rm_branch_unguarded(brs, head, name) ==
    IF name \in DOMAIN brs
    THEN [outcome |-> "ok", brs |-> Branch_remove(brs, name)]
    ELSE [outcome |-> "panic", brs |-> brs]

\* Repository::rm_branch: [outcome, branches afterwards]
rm_branch(brs, head, name) ==
    IF head.kind = "Symbolic" /\ head.name = name
    THEN [outcome |-> "active", brs |-> brs]
    ELSE IF name \in DOMAIN brs
    THEN [outcome |-> "ok", brs |-> Branch_remove(brs, name)]
    ELSE [outcome |-> "panic", brs |-> brs]

CreateBranch(name) ==
    /\ branches' = branch(branches, HEAD, name).brs
    /\ UNCHANGED <<worktree, index_file, objects, HEAD>>
    /\ Record("branch")

RmBranch(name) ==
    /\ branches' = rm_branch(branches, HEAD, name).brs
    /\ UNCHANGED <<worktree, index_file, objects, HEAD>>
    /\ Record("rm_branch")

Checkout(branch_name) ==
    \E r \in {checkout(worktree, index_file, objects, branches, HEAD, branch_name)} :
    /\ worktree' = r.wt
    /\ index_file' = r.idx
    /\ HEAD' = r.head
    /\ UNCHANGED <<objects, branches>>
    /\ Record("checkout")

Merge(branch_name, now) ==
    \E r \in {merge(worktree, index_file, objects, branches, HEAD, branch_name, now)} :
    /\ Cardinality(Commits(objects)) < MaxCommits \/ r.db = objects
    /\ worktree' = r.wt
    /\ index_file' = r.idx
    /\ objects' = r.db
    /\ branches' = r.brs
    /\ HEAD' = r.head
    /\ Record("merge_" \o r.outcome)

\* status prints and changes nothing
Status ==
    /\ status(index_file, objects, branches, HEAD).st \in {"ok", "no_commits", "exit1"}
    /\ UNCHANGED vars

\* the argument lists add and rm are called with
FileLists == {<<p>> : p \in Paths \cup {<<"d">>}}

Next ==
    \/ \E p \in Paths : \E data \in UserContents(p) : WriteFile(p, data)
    \/ \E p \in Paths : DeleteFile(p)
    \/ \E files \in FileLists : Add(files)
    \/ \E files \in FileLists : Rm(files)
    \/ \E message \in Messages : \E now \in Times : Commit(message, now)
    \/ \E name \in BranchNames : CreateBranch(name)
    \/ \E name \in BranchNames : RmBranch(name)
    \/ \E name \in BranchNames : Checkout(name)
    \/ \E name \in BranchNames : \E now \in Times : Merge(name, now)
    \/ Status

Spec == Init /\ [][Next]_vars

----------------------------------------------------------------------------
(* Diverged histories: the repository after                                *)
(*   add, commit (L); branch feature; add, commit (C);                     *)
(*   checkout feature; add, commit (M); checkout master                    *)
(* with the working tree set by the user before each add.                  *)

\* the working trees over MergePaths
WorkTrees == {wt \in [MergePaths -> {None} \cup {Some(c) : c \in {"hello", "D", "F", "1", "2"}}] :
                 \A p \in MergePaths : is_some(wt[p]) => unwrap(wt[p]) \in UserContents(p)}

\* add every path that exists or is tracked
RECURSIVE stage_all(_, _, _, _)
\* the step of stage_all after add has run on one path
stage_all_rest(wt, paths, p, r) == stage_all(wt, r.idx, r.db, paths \ {p})

\* the step of stage_all on path p
stage_all_path(wt, idx, db, paths, p) ==
    stage_all_rest(wt, paths, p,
        IF file_exists(wt, p)
           \/ (is_some(idx) /\ is_some(get_sha1(Index_load(unwrap(idx)), p)))
        THEN add(wt, idx, db, <<p>>)
        ELSE [st |-> "ok", wt |-> wt, idx |-> idx, db |-> db])

\* [st, worktree, index file, store afterwards]
stage_all(wt, idx, db, paths) ==
    IF paths = {} THEN [st |-> "ok", wt |-> wt, idx |-> idx, db |-> db]
    ELSE stage_all_path(wt, idx, db, paths, CHOOSE q \in paths : TRUE)

\* the repository once the staged index a.idx is committed
snapshot_commit(wt, a, c) ==
    [wt |-> wt, idx |-> a.idx, db |-> c.db, brs |-> c.brs, head |-> c.head]

\* the repository once everything in wt is staged
snapshot_staged(s, wt, a) ==
    snapshot_commit(wt, a, commit(a.idx, a.db, s.brs, s.head, "m", 1))

\* the user replaces the working tree by wt, stages it and commits
snapshot(s, wt) == snapshot_staged(s, wt, stage_all(wt, s.idx, s.db, MergePaths))

\* the repository after the checkout with result co
switch_to(s, co) == [s EXCEPT !.wt = co.wt, !.idx = co.idx, !.head = co.head]

\* the user checks out branch_name
switch(s, branch_name) ==
    switch_to(s, checkout(s.wt, s.idx, s.db, s.brs, s.head, branch_name))

\* the repository right after Repository::init, as a record
Fresh ==
    [wt |-> [p \in MergePaths |-> None], idx |-> None, db |-> <<>>,
     brs |-> ("master" :> None), head |-> Symbolic("master")]

\* master's commit leaves d/c as the base has it, feature's commit leaves b
InitMerge ==
    \E L \in WorkTrees :
    \E C \in {wt \in WorkTrees \ {L} : wt[<<"d", "c">>] = L[<<"d", "c">>]} :
    \E M \in {wt \in WorkTrees \ {L} : wt[<<"b">>] = L[<<"b">>]} :
    \E s1 \in {snapshot(Fresh, L)} :
    \E s2 \in {[s1 EXCEPT !.brs = branch(s1.brs, s1.head, "feature").brs]} :
    \E s3 \in {snapshot(s2, C)} :
    \E s4 \in {switch(s3, "feature")} :
    \E s5 \in {snapshot(s4, M)} :
    \E s \in {switch(s5, "master")} :
        /\ worktree = s.wt
        /\ index_file = s.idx
        /\ objects = s.db
        /\ branches = s.brs
        /\ HEAD = s.head
        /\ last = "init"
        /\ mem_index = Index_new

MergeDiverged(branch_name, now) ==
    \E r \in {merge(worktree, index_file, objects, branches, HEAD, branch_name, now)} :
    /\ Cardinality(Commits(objects)) < 3 + MaxMerges \/ r.db = objects
    /\ worktree' = r.wt
    /\ index_file' = r.idx
    /\ objects' = r.db
    /\ branches' = r.brs
    /\ HEAD' = r.head
    /\ Record("merge_" \o r.outcome)

NextMerge ==
    \/ \E p \in MergePaths : \E data \in UserContents(p) : WriteFile(p, data)
    \/ \E p \in MergePaths : DeleteFile(p)
    \/ \E name \in BranchNames : \E now \in Times : MergeDiverged(name, now)

SpecMerge == InitMerge /\ [][NextMerge]_vars

----------------------------------------------------------------------------
(* Staging: the user edits files under D and one file beside D, and runs   *)
(* add on one or two arguments.                                            *)

\* a name that is a file at one time and a directory at another, a file at
\* the top, and a file outside D spelled through the parent directory
StagePaths == {<<"a">>, <<"d">>, <<"d", "a">>, <<"..", "x">>}

\* the arguments of add: the paths above, a path inside D/.git and an
\* absolute path outside D
StageArgs == StagePaths \cup {<<".git", "HEAD">>, <<"/", "x">>}

StageLists ==
    {<<p>> : p \in StageArgs}
    \cup {<<p, q>> : p, q \in {<<"a">>, <<"d", "a">>}}

InitStage ==
    /\ worktree = [p \in StagePaths |-> None]
    /\ index_file = None
    /\ objects = <<>>
    /\ HEAD = Symbolic("master")
    /\ branches = Branch_save(<<>>,
                      [name |-> "master",
                       commit_sha |-> get_current_commit(<<>>, Symbolic("master"))])
    /\ last = "init"
    /\ mem_index = Index_new

\* the user writes a file where the file system lets one be: no directory
\* is at p and no file stands where p needs a directory
WriteStageFile(p, data) ==
    /\ ~dir_exists(worktree, p)
    /\ \A q \in DOMAIN worktree :
           (Len(q) < Len(p) /\ SubSeq(p, 1, Len(q)) = q) => ~file_exists(worktree, q)
    /\ WriteFile(p, data)

NextStage ==
    \/ \E p \in StagePaths : \E data \in UserContents(p) : WriteStageFile(p, data)
    \/ \E p \in StagePaths : DeleteFile(p)
    \/ \E files \in StageLists : Add(files)

SpecStage == InitStage /\ [][NextStage]_vars

----------------------------------------------------------------------------
(* A name that one branch has as a file and the other as a directory: the  *)
(* repository after                                                        *)
(*   add a, commit; branch feature; add d, commit;                         *)
(*   checkout feature; add d/c, commit                                     *)

AcrossPaths == {<<"a">>, <<"d">>, <<"d", "c">>}

\* the working trees committed at the split point, on master and on feature
AcrossBase == [p \in AcrossPaths |-> IF p = <<"a">> THEN Some("hello") ELSE None]

AcrossMaster == [AcrossBase EXCEPT ![<<"d">>] = Some("2")]

AcrossFeature == [AcrossBase EXCEPT ![<<"d", "c">>] = Some("2")]

\* the user replaces the working tree by wt, stages it and commits
snapshot_across(s, wt) ==
    snapshot_staged(s, wt, stage_all(wt, s.idx, s.db, AcrossPaths))

InitAcross ==
    \E s1 \in {snapshot_across([Fresh EXCEPT !.wt = [p \in AcrossPaths |-> None]],
                                AcrossBase)} :
    \E s2 \in {[s1 EXCEPT !.brs = branch(s1.brs, s1.head, "feature").brs]} :
    \E s3 \in {snapshot_across(s2, AcrossMaster)} :
    \E s4 \in {switch(s3, "feature")} :
    \E s \in {snapshot_across(s4, AcrossFeature)} :
        /\ worktree = s.wt
        /\ index_file = s.idx
        /\ objects = s.db
        /\ branches = s.brs
        /\ HEAD = s.head
        /\ last = "init"
        /\ mem_index = Index_new

NextAcross ==
    \/ \E p \in AcrossPaths : \E data \in UserContents(p) : WriteStageFile(p, data)
    \/ \E p \in AcrossPaths : DeleteFile(p)
    \/ \E p \in AcrossPaths : Add(<<p>>)
    \/ \E name \in BranchNames : \E now \in Times : MergeDiverged(name, now)

SpecAcross == InitAcross /\ [][NextAcross]_vars

----------------------------------------------------------------------------
(* A file that one branch replaces by a directory: the repository after    *)
(*   add d, commit; branch feature; add a, commit;                         *)
(*   checkout feature; rm d, add d/c, commit                               *)

\* the working trees committed at the split point, on master and on feature
ReplaceBase == [p \in AcrossPaths |-> IF p = <<"d">> THEN Some("hello") ELSE None]

ReplaceMaster == [ReplaceBase EXCEPT ![<<"a">>] = Some("2")]

\* the user removes the file d with rm, writes d/c, stages it and commits
replace_staged(s, r) ==
    snapshot_staged(s, [r.wt EXCEPT ![<<"d", "c">>] = Some("2")],
                    add([r.wt EXCEPT ![<<"d", "c">>] = Some("2")], r.idx, r.db,
                        <<<<"d", "c">>>>))

replace_by_directory(s) == replace_staged(s, rm(s.wt, s.idx, s.db, <<<<"d">>>>))

InitReplace ==
    \E s1 \in {snapshot_across([Fresh EXCEPT !.wt = [p \in AcrossPaths |-> None]],
                                ReplaceBase)} :
    \E s2 \in {[s1 EXCEPT !.brs = branch(s1.brs, s1.head, "feature").brs]} :
    \E s3 \in {snapshot_across(s2, ReplaceMaster)} :
    \E s4 \in {switch(s3, "feature")} :
    \E s \in {replace_by_directory(s4)} :
        /\ worktree = s.wt
        /\ index_file = s.idx
        /\ objects = s.db
        /\ branches = s.brs
        /\ HEAD = s.head
        /\ last = "init"
        /\ mem_index = Index_new

SpecReplace == InitReplace /\ [][NextAcross]_vars

----------------------------------------------------------------------------
(* The index on its own: a caller updates and removes entries of an Index  *)
(* value, saves it to the index file and loads it back; the user may write *)
(* the index file by hand.  The index file is held as its text.            *)

\* the lines "<path> <digest>" of the chosen paths, ascending, each ended
\* by a newline
RECURSIVE FileText(_, _, _)
FileText(S, sha1, i) ==
    IF i > Len(FilePathOrder) THEN ""
    ELSE (IF FilePathOrder[i] \in S
          THEN FilePathOrder[i] \o " " \o sha1 \o "\n" ELSE "")
         \o FileText(S, sha1, i + 1)

ValidIndexFiles == {FileText(S, Hex2, 1) : S \in SUBSET Range(FilePathOrder)}

IndexFiles == ValidIndexFiles \cup {"bad_line_without_space"}

InitIndex ==
    /\ worktree = [p \in Paths |-> None]
    /\ index_file = None
    /\ objects = <<>>
    /\ HEAD = Symbolic("master")
    /\ branches = ("master" :> None)
    /\ last = "init"
    /\ mem_index = Index_new

UpdateEntry(file_path, sha1) ==
    /\ mem_index.size < MaxSize
    /\ mem_index' = update_entry(mem_index, path_of(file_path), sha1)
    /\ UNCHANGED <<worktree, index_file, objects, branches, HEAD, last>>

\* taken while the count is above zero: below it the subtraction overflows
RemoveEntry(file_path) ==
    /\ mem_index.size > 0
    /\ mem_index' = remove_entry(mem_index, path_of(file_path))[1]
    /\ UNCHANGED <<worktree, index_file, objects, branches, HEAD, last>>

Save ==
    /\ index_file' = Some(Index_save_text(mem_index))
    /\ UNCHANGED <<worktree, objects, branches, HEAD, last, mem_index>>

\* a missing or malformed index file is an Err and leaves the caller's value
Load ==
    /\ mem_index' = IF is_some(index_file)
                       /\ is_some(Index_load_text(unwrap(index_file)))
                    THEN unwrap(Index_load_text(unwrap(index_file)))
                    ELSE mem_index
    /\ UNCHANGED <<worktree, index_file, objects, branches, HEAD, last>>

WriteIndexFile(content) ==
    /\ index_file' = Some(content)
    /\ UNCHANGED <<worktree, objects, branches, HEAD, last, mem_index>>

NextIndex ==
    \/ \E t \in PathTexts : UpdateEntry(t, Hex1)
    \/ \E t \in PathTexts : RemoveEntry(t)
    \/ Save
    \/ Load
    \/ \E content \in IndexFiles : WriteIndexFile(content)

SpecIndex == InitIndex /\ [][NextIndex]_vars

----------------------------------------------------------------------------
(* Refs, HEAD and commit objects as the text of their files: the program   *)
(* saves branches and HEAD, and the user may write a branch file, HEAD or  *)
(* a commit object by hand.  Here branches maps a branch name to the       *)
(* content of its file, HEAD is the content of the HEAD file and objects   *)
(* maps a digest to the content of a commit object.                        *)

\* the tree and parent digests the user may spell in a commit object
TreeTexts == {Hex1, "zz"}

ParentTexts == {None, Some(Hex2), Some("no parent")}

CommitText(tree_sha, parent) ==
    "tree " \o tree_sha \o "\n"
    \o (IF is_some(parent) THEN "parent " \o unwrap(parent) \o "\n" ELSE "")
    \o "author " \o AuthorLine \o "\n"
    \o "committer " \o AuthorLine \o "\n\n" \o "m\n"

CommitContents ==
    {CommitText(t, p) : t \in TreeTexts, p \in ParentTexts}
    \cup {"tree " \o Hex1 \o "\n\nm\n"}

InitDigest ==
    /\ worktree = [p \in Paths |-> None]
    /\ index_file = None
    /\ objects = <<>>
    /\ HEAD = Head_save_text(Symbolic("refs/heads/master"))
    /\ branches = ("master" :> Branch_save_text(None))
    /\ last = "init"
    /\ mem_index = Index_new

BranchSave(name, commit_sha) ==
    /\ branches' = (name :> Branch_save_text(commit_sha)) @@ branches
    /\ UNCHANGED <<worktree, index_file, objects, HEAD, last, mem_index>>

WriteRefFile(name, content) ==
    /\ branches' = (name :> content) @@ branches
    /\ UNCHANGED <<worktree, index_file, objects, HEAD, last, mem_index>>

HeadSave(head) ==
    /\ HEAD' = Head_save_text(head)
    /\ UNCHANGED <<worktree, index_file, objects, branches, last, mem_index>>

WriteHeadFile(content) ==
    /\ HEAD' = content
    /\ UNCHANGED <<worktree, index_file, objects, branches, last, mem_index>>

WriteCommitFile(content) ==
    /\ Cardinality(DOMAIN objects) < MaxObjectFiles
    /\ objects' = (encoded_sha1(content) :> content) @@ objects
    /\ UNCHANGED <<worktree, index_file, branches, HEAD, last, mem_index>>

\* the commits the program encodes and stores
AuthorValue == [name |-> "A U Thor", email |-> "a@example.com", timestamp |-> "1", tz |-> "+0000"]

CommitValues ==
    {[tree_sha |-> Hex1, parents |-> ps, author |-> AuthorValue,
      committer |-> AuthorValue, message |-> m] :
        ps \in {<<>>, <<Hex2, Hex1>>}, m \in {"m", "a\n\nb", "m \n"}}

StoreCommit(value) ==
    /\ Cardinality(DOMAIN objects) < MaxObjectFiles
    /\ objects' = (encoded_sha1(Commit_display(value)) :> Commit_display(value))
                      @@ objects
    /\ UNCHANGED <<worktree, index_file, branches, HEAD, last, mem_index>>

NextDigest ==
    \/ \E name \in BranchNames, sha \in {None, Some(Hex1)} : BranchSave(name, sha)
    \/ \E name \in BranchNames, content \in RefContents : WriteRefFile(name, content)
    \/ \E head \in {Symbolic("refs/heads/master"), Detached(Hex1)} : HeadSave(head)
    \/ \E content \in HeadContents : WriteHeadFile(content)
    \/ \E content \in CommitContents : WriteCommitFile(content)
    \/ \E value \in CommitValues : StoreCommit(value)

SpecDigest == InitDigest /\ [][NextDigest]_vars

----------------------------------------------------------------------------
(* What the stored objects say, read directly off the store *)

\* the <<path, blob digest>> pairs a stored tree lists, sub-trees included
RECURSIVE TreeFiles(_, _)
TreeFiles(db, tree_sha) ==
    IF tree_sha \notin DOMAIN db THEN {}
    ELSE UNION {LET e == db[tree_sha].entries[n] IN
                IF e.object_type = "blob" THEN {<<(<<n>>), e.sha1>>}
                ELSE {<<(<<n>>) \o f[1], f[2]>> : f \in TreeFiles(db, e.sha1)}
                : n \in DOMAIN db[tree_sha].entries}

\* the files of the tree of a stored commit, {} for no commit
CommitFiles(db, commit_sha) ==
    IF is_some(commit_sha) /\ unwrap(commit_sha) \in DOMAIN db
    THEN TreeFiles(db, db[unwrap(commit_sha)].tree_sha) ELSE {}

\* the (path, digest) lines of an index file, {} when there is no file
FileEntries(idx) == IF is_some(idx) THEN Range(unwrap(idx)) ELSE {}

\* a tree and everything below it is in the store
RECURSIVE TreeClosed(_, _)
TreeClosed(db, tree_sha) ==
    /\ tree_sha \in DOMAIN db
    /\ db[tree_sha].type = "tree"
    /\ \A n \in DOMAIN db[tree_sha].entries :
          LET e == db[tree_sha].entries[n] IN
          IF e.object_type = "blob"
          THEN e.sha1 \in DOMAIN db /\ db[e.sha1].type = "blob"
          ELSE TreeClosed(db, e.sha1)

\* a commit, its tree and all its ancestors are in the store
RECURSIVE CommitClosed(_, _)
CommitClosed(db, commit_sha) ==
    /\ commit_sha \in DOMAIN db
    /\ db[commit_sha].type = "commit"
    /\ TreeClosed(db, db[commit_sha].tree_sha)
    /\ \A i \in DOMAIN db[commit_sha].parents :
          CommitClosed(db, db[commit_sha].parents[i])

\* the paths a set of (path, digest) pairs names
PathsIn(files) == {f[1] : f \in files}

\* every listed path is a working-tree file holding exactly its blob's bytes
WorktreeHolds(wt, db, files) ==
    \A f \in files :
        /\ f[1] \in DOMAIN wt /\ is_some(wt[f[1]])
        /\ f[2] \in DOMAIN db
        /\ db[f[2]] = [type |-> "blob", data |-> unwrap(wt[f[1]])]

\* the working tree holds the listed files and no other file
WorktreeEquals(wt, db, files) ==
    /\ WorktreeHolds(wt, db, files)
    /\ \A p \in DOMAIN wt : is_some(wt[p]) => p \in PathsIn(files)

\* something is at path in the working tree: a file, or a directory
\* (a file lies below it)
Exists(wt, path) ==
    \E q \in DOMAIN wt :
        is_some(wt[q]) /\ Len(q) >= Len(path) /\ SubSeq(q, 1, Len(path)) = path

\* a file of the working tree stands where path needs a directory
UnderFile(wt, path) ==
    \E q \in DOMAIN wt :
        is_some(wt[q]) /\ Len(q) < Len(path) /\ SubSeq(path, 1, Len(q)) = q

\* a commit and its first parent, that one's first parent, and so on
RECURSIVE FirstParentChain(_, _)
FirstParentChain(db, commit_sha) ==
    IF commit_sha \notin DOMAIN db THEN {}
    ELSE {commit_sha} \cup
         (IF db[commit_sha].parents = <<>> THEN {}
          ELSE FirstParentChain(db, db[commit_sha].parents[1]))

\* the tip of a branch, None for no such branch or no commit
Tip(brs, name) == IF name \in DOMAIN brs THEN brs[name] ELSE None

----------------------------------------------------------------------------
(* Properties *)

\* C1: between operations every digest reachable from HEAD -- the commit
\* HEAD resolves to, its ancestors, their trees and sub-trees and the blobs
\* they list -- is present in the object store.
C1_ReachableStored ==
    LET c == get_current_commit(branches, HEAD)
    IN is_some(c) => CommitClosed(objects, unwrap(c))

\* a fast-forward merge has just moved HEAD's branch to a commit that has a
\* parent and whose tree lists a blob inside a sub-tree
C1_Witness ==
    LET c == get_current_commit(branches, HEAD) IN
    /\ last = "merge_fast_forward"
    /\ is_some(c)
    /\ objects[unwrap(c)].parents /= <<>>
    /\ \E f \in CommitFiles(objects, c) : Len(f[1]) = 2

\* C2: a successful commit with a non-empty message while HEAD is symbolic
\* to branch B stores a commit whose tree is the tree of the on-disk index
\* and whose parents are exactly the previous tip of B (none when B had no
\* commit), rewrites B to that commit and leaves HEAD symbolic to B.
C2_CommitAdvancesBranch ==
    \A message \in Messages \ {""} : \A now \in Times :
        LET r == commit(index_file, objects, branches, HEAD, message, now)
            prev == get_current_commit(branches, HEAD)
        IN (HEAD.kind = "Symbolic" /\ r.outcome = "committed") =>
           LET tip == r.brs[HEAD.name] IN
           /\ is_some(tip) /\ tip /= prev
           /\ unwrap(tip) \in DOMAIN r.db
           /\ r.db[unwrap(tip)].type = "commit"
           /\ TreeClosed(r.db, r.db[unwrap(tip)].tree_sha)
           /\ TreeFiles(r.db, r.db[unwrap(tip)].tree_sha) = FileEntries(index_file)
           /\ r.db[unwrap(tip)].parents
                  = (IF is_some(prev) THEN <<unwrap(prev)>> ELSE <<>>)
           /\ r.db[unwrap(tip)].message = message
           /\ r.head = HEAD
           /\ DOMAIN r.brs = DOMAIN branches
           /\ \A n \in DOMAIN branches \ {HEAD.name} : r.brs[n] = branches[n]

\* a second commit is about to succeed on a branch that has a tip
C2_Witness ==
    /\ HEAD.kind = "Symbolic"
    /\ is_some(get_current_commit(branches, HEAD))
    /\ FileEntries(index_file) /= {}
    /\ commit(index_file, objects, branches, HEAD, "m", 1).outcome = "committed"

\* C3 as stated: when HEAD's commit exists, commit fails with "no changes"
\* exactly when the index's entries are the entries of that commit's tree,
\* and then stores nothing and moves no branch and not HEAD -- for each
\* message, the empty one included.
C3_AsStated ==
    \A message \in Messages : \A now \in Times :
        LET r == commit(index_file, objects, branches, HEAD, message, now)
            parent == get_current_commit(branches, HEAD)
        IN is_some(parent) =>
           /\ (r.outcome = "no_changes")
                 <=> (FileEntries(index_file) = CommitFiles(objects, parent))
           /\ (r.outcome = "no_changes")
                 => (r.db = objects /\ r.brs = branches /\ r.head = HEAD)

\* C3: when HEAD's commit exists and the message is not empty, commit fails
\* with "no changes" exactly when the set of (path, digest) entries of the
\* on-disk index equals the entry set of that commit's tree; then nothing is
\* stored and no branch and not HEAD changes (commit never writes the index).
C3_NoChanges ==
    \A message \in Messages \ {""} : \A now \in Times :
        LET r == commit(index_file, objects, branches, HEAD, message, now)
            parent == get_current_commit(branches, HEAD)
        IN is_some(parent) =>
           /\ (r.outcome = "no_changes")
                 <=> (FileEntries(index_file) = CommitFiles(objects, parent))
           /\ (r.outcome = "no_changes")
                 => (r.db = objects /\ r.brs = branches /\ r.head = HEAD)

\* the index lists exactly the files of HEAD's commit, and commit refuses
C3_Witness ==
    /\ is_some(get_current_commit(branches, HEAD))
    /\ FileEntries(index_file) /= {}
    /\ FileEntries(index_file) = CommitFiles(objects, get_current_commit(branches, HEAD))
    /\ commit(index_file, objects, branches, HEAD, "m", 1).outcome = "no_changes"

\* C4: after a successful checkout of an existing branch B that is not the
\* current one, HEAD is symbolic to B and the on-disk index lists exactly the
\* files of the tree of B's commit (nothing when B has no commit), whatever
\* was staged before.
C4_CheckoutIndexAndHead ==
    \A B \in BranchNames :
        LET r == checkout(worktree, index_file, objects, branches, HEAD, B)
        IN (r.st = "ok") =>
           /\ B \in DOMAIN branches
           /\ HEAD /= Symbolic(B)
           /\ r.head = Symbolic(B)
           /\ is_some(r.idx)
           /\ FileEntries(r.idx) = CommitFiles(objects, Tip(branches, B))
           /\ Len(unwrap(r.idx)) = Cardinality(FileEntries(r.idx))

\* a checkout is about to succeed while the index holds staged entries that
\* are neither those of the current commit nor those of the target
C4_Witness ==
    \E B \in BranchNames :
        /\ checkout(worktree, index_file, objects, branches, HEAD, B).st = "ok"
        /\ FileEntries(index_file) /= {}
        /\ FileEntries(index_file) /= CommitFiles(objects, Tip(branches, B))
        /\ FileEntries(index_file)
              /= CommitFiles(objects, get_current_commit(branches, HEAD))
        /\ CommitFiles(objects, Tip(branches, B)) /= {}

\* C5: if the working tree holds every path of the current commit's tree with
\* exactly its blob's content, then after a successful checkout(B) every path
\* of B's tree is in the working tree with exactly its blob's content and
\* every path of the current tree that is not in B's tree is absent.
C5_CheckoutWorktree ==
    \A B \in BranchNames :
        LET r == checkout(worktree, index_file, objects, branches, HEAD, B)
            cur == CommitFiles(objects, get_current_commit(branches, HEAD))
            tgt == CommitFiles(objects, Tip(branches, B))
        IN (r.st = "ok" /\ WorktreeHolds(worktree, objects, cur)) =>
           /\ WorktreeHolds(r.wt, objects, tgt)
           /\ \A p \in PathsIn(cur) \ PathsIn(tgt) : ~Exists(r.wt, p)

\* a checkout is about to succeed that has to rewrite a file the two trees
\* hold with different contents
C5_Witness ==
    \E B \in BranchNames :
        LET cur == CommitFiles(objects, get_current_commit(branches, HEAD))
            tgt == CommitFiles(objects, Tip(branches, B))
        IN /\ checkout(worktree, index_file, objects, branches, HEAD, B).st = "ok"
           /\ WorktreeHolds(worktree, objects, cur)
           /\ \E f \in cur : \E g \in tgt : f[1] = g[1] /\ f[2] /= g[2]

\* C6: if a path of the target branch's tree that is not in the current
\* commit's tree already exists in the working tree, checkout fails (exit
\* code 1) and changes nothing: not the working tree, not the index, not HEAD.
C6_UntrackedInTheWay ==
    \A B \in BranchNames :
        LET r == checkout(worktree, index_file, objects, branches, HEAD, B)
            cur == CommitFiles(objects, get_current_commit(branches, HEAD))
            tgt == CommitFiles(objects, Tip(branches, B))
        IN (\E p \in PathsIn(tgt) \ PathsIn(cur) : Exists(worktree, p)) =>
           /\ r.st = "exit1"
           /\ r.wt = worktree
           /\ r.idx = index_file
           /\ r.head = HEAD

\* an untracked file stands where the target branch has a file, with other
\* content than the target's blob
C6_Witness ==
    \E B \in BranchNames :
        LET cur == CommitFiles(objects, get_current_commit(branches, HEAD))
            tgt == CommitFiles(objects, Tip(branches, B))
        IN /\ \E f \in tgt : /\ f[1] \notin PathsIn(cur)
                             /\ f[1] \in DOMAIN worktree
                             /\ is_some(worktree[f[1]])
                             /\ objects[f[2]].data /= unwrap(worktree[f[1]])
           /\ checkout(worktree, index_file, objects, branches, HEAD, B).st = "exit1"

\* C7: whenever the entry set of the on-disk index differs from the entry
\* set of the current commit's tree, merge(B) fails (exit code 1) and changes
\* neither the index, a branch, HEAD, the working tree nor the store.
C7_MergeDirtyIndex ==
    \A B \in BranchNames : \A now \in Times :
        LET r == merge(worktree, index_file, objects, branches, HEAD, B, now)
            cur == get_current_commit(branches, HEAD)
        IN (is_some(cur) /\ FileEntries(index_file) /= CommitFiles(objects, cur)) =>
           /\ r.exit = 1
           /\ r.wt = worktree
           /\ r.idx = index_file
           /\ r.db = objects
           /\ r.brs = branches
           /\ r.head = HEAD

\* a merge of a branch that is ahead of the current one is refused because
\* an entry is staged
C7_Witness ==
    \E B \in BranchNames :
        LET cur == get_current_commit(branches, HEAD) IN
        /\ is_some(cur) /\ is_some(Tip(branches, B))
        /\ cur /= Tip(branches, B)
        /\ unwrap(cur) \in FirstParentChain(objects, unwrap(Tip(branches, B)))
        /\ FileEntries(index_file) /= CommitFiles(objects, cur)
        /\ merge(worktree, index_file, objects, branches, HEAD, B, 1).outcome = "dirty"

\* the current commit C is a proper first-parent ancestor of B's commit M
\* and the index lists exactly the files of C's tree
FastForwardCase(B) ==
    LET C == get_current_commit(branches, HEAD)
        M == Tip(branches, B)
    IN /\ HEAD.kind = "Symbolic"
       /\ is_some(C) /\ is_some(M) /\ C /= M
       /\ unwrap(C) \in FirstParentChain(objects, unwrap(M))
       /\ FileEntries(index_file) = CommitFiles(objects, C)

\* r is a fast-forward to B's commit: the current branch points at M, the
\* store, HEAD and B's pointer are as before, the index lists M's tree and
\* the working tree holds every file of M's tree
FastForwarded(r, B) ==
    LET M == Tip(branches, B) IN
    /\ r.brs = [branches EXCEPT ![HEAD.name] = M]
    /\ r.db = objects
    /\ r.head = HEAD
    /\ r.head /= Symbolic(B)
    /\ r.brs[B] = branches[B]
    /\ FileEntries(r.idx) = CommitFiles(objects, M)
    /\ WorktreeHolds(r.wt, objects, CommitFiles(objects, M))

\* C8 as stated: in the fast-forward case merge(B) fast-forwards, whatever
\* the working tree holds (read weakly: the working tree need only hold the
\* files of M's tree afterwards).
C8_AsStated ==
    \A B \in BranchNames : \A now \in Times :
        FastForwardCase(B) =>
            FastForwarded(merge(worktree, index_file, objects, branches, HEAD,
                                B, now), B)

\* nothing stands in the working tree where tgt has a path that cur has not
Unobstructed(wt, cur, tgt) ==
    \A p \in PathsIn(tgt) \ PathsIn(cur) : ~Exists(wt, p) /\ ~UnderFile(wt, p)

\* C8: when C is a proper first-parent ancestor of M, the index is clean,
\* the working tree holds exactly the files of C's tree and nothing stands
\* where M's tree adds a path, merge(B) fast-forwards: the current branch
\* points at M, no commit is created, HEAD stays symbolic to the branch that
\* was current, B's pointer is unchanged, index and working tree are M's tree.
C8_FastForward ==
    \A B \in BranchNames : \A now \in Times :
        LET C == CommitFiles(objects, get_current_commit(branches, HEAD))
            M == CommitFiles(objects, Tip(branches, B))
        IN (/\ FastForwardCase(B)
            /\ WorktreeEquals(worktree, objects, C)
            /\ Unobstructed(worktree, C, M)) =>
           LET r == merge(worktree, index_file, objects, branches, HEAD, B, now)
           IN FastForwarded(r, B) /\ WorktreeEquals(r.wt, objects, M)

\* a fast-forward is about to rewrite a file: the working tree holds C's
\* tree, and M's tree has other content at a path of C's tree
C8_Witness ==
    \E B \in BranchNames :
        LET C == CommitFiles(objects, get_current_commit(branches, HEAD))
            M == CommitFiles(objects, Tip(branches, B))
        IN /\ FastForwardCase(B)
           /\ WorktreeEquals(worktree, objects, C)
           /\ \E f \in C : \E g \in M : f[1] = g[1] /\ f[2] /= g[2]
           /\ merge(worktree, index_file, objects, branches, HEAD, B, 1).outcome
                 = "fast_forward"

\* C9: when B's commit M is on the first-parent chain of the current commit
\* C and C /= M, merge(B) stores no object and changes neither the index,
\* the working tree, a branch nor HEAD.
C9_MergeAncestorNoop ==
    \A B \in BranchNames : \A now \in Times :
        LET r == merge(worktree, index_file, objects, branches, HEAD, B, now)
            C == get_current_commit(branches, HEAD)
            M == Tip(branches, B)
        IN (/\ is_some(C) /\ is_some(M) /\ C /= M
            /\ unwrap(M) \in FirstParentChain(objects, unwrap(C))) =>
           /\ r.db = objects
           /\ r.idx = index_file
           /\ r.wt = worktree
           /\ r.brs = branches
           /\ r.head = HEAD

\* the current branch is two commits ahead of B, the index is clean, and
\* merge returns without an error
C9_Witness ==
    \E B \in BranchNames :
        LET C == get_current_commit(branches, HEAD)
            M == Tip(branches, B)
        IN /\ is_some(C) /\ is_some(M) /\ C /= M
           /\ unwrap(M) \in FirstParentChain(objects, unwrap(C))
           /\ objects[unwrap(C)].parents /= <<M[1]>>
           /\ merge(worktree, index_file, objects, branches, HEAD, B, 1).outcome = "noop"

\* the digest a set of (path, digest) pairs gives a path, None for no entry
ShaAt(files, p) ==
    IF \E f \in files : f[1] = p
    THEN Some((CHOOSE f \in files : f[1] = p)[2]) ELSE None

\* the commits on the first-parent chains of both C and M
CommonChain(C, M) ==
    FirstParentChain(objects, unwrap(C)) \cap FirstParentChain(objects, unwrap(M))

\* the nearest commit on both chains
SplitPoint(C, M) ==
    CHOOSE x \in CommonChain(C, M) :
        CommonChain(C, M) \subseteq FirstParentChain(objects, x)

\* what the merge of trees C and M with split point L lists at path p: the
\* other side's entry where the current side kept L's, else the current one
MergedAt(L, C, M, p) ==
    IF ShaAt(C, p) = ShaAt(L, p) THEN ShaAt(M, p) ELSE ShaAt(C, p)

MergedFiles(L, C, M) ==
    {<<p, unwrap(MergedAt(L, C, M, p))>> :
        p \in {q \in PathsIn(L) \cup PathsIn(C) \cup PathsIn(M) :
                  is_some(MergedAt(L, C, M, q))}}

\* both sides changed p since L, and not to the same entry
Conflicting(L, C, M, p) ==
    /\ ShaAt(C, p) /= ShaAt(L, p)
    /\ ShaAt(M, p) /= ShaAt(L, p)
    /\ ShaAt(C, p) /= ShaAt(M, p)

\* the current commit and B's commit have a split point that is neither of
\* them, the index is clean and no path conflicts
ThreeWayCase(B) ==
    LET C == get_current_commit(branches, HEAD)
        M == Tip(branches, B)
    IN /\ HEAD.kind = "Symbolic"
       /\ is_some(C) /\ is_some(M)
       /\ CommonChain(C, M) /= {}
       /\ unwrap(C) \notin CommonChain(C, M)
       /\ unwrap(M) \notin CommonChain(C, M)
       /\ FileEntries(index_file) = CommitFiles(objects, C)
       /\ LET Lf == CommitFiles(objects, Some(SplitPoint(C, M)))
               Cf == CommitFiles(objects, C)
               Mf == CommitFiles(objects, M)
          IN \A p \in PathsIn(Lf) \cup PathsIn(Cf) \cup PathsIn(Mf) :
                 ~Conflicting(Lf, Cf, Mf, p)

\* the tree a three-way merge of B is to produce
MergeResult(B) ==
    LET C == get_current_commit(branches, HEAD)
        M == Tip(branches, B)
    IN MergedFiles(CommitFiles(objects, Some(SplitPoint(C, M))),
                   CommitFiles(objects, C), CommitFiles(objects, M))

\* r is a completed three-way merge of B: the merge commit is stored and is
\* the current branch's tip, the index lists the merged tree and the working
\* tree holds every file of it
ThreeWayMerged(r, B) ==
    LET C == get_current_commit(branches, HEAD)
        M == Tip(branches, B)
        Lf == CommitFiles(objects, Some(SplitPoint(C, M)))
        Cf == CommitFiles(objects, C)
        Mf == CommitFiles(objects, M)
        tip == r.brs[HEAD.name]
    IN /\ is_some(tip)
       /\ unwrap(tip) \notin DOMAIN objects
       /\ unwrap(tip) \in DOMAIN r.db
       /\ r.db[unwrap(tip)].type = "commit"
       /\ r.db[unwrap(tip)].parents = <<unwrap(C), unwrap(M)>>
       /\ r.db[unwrap(tip)].message = "Merge " \o B
       /\ r.brs = [branches EXCEPT ![HEAD.name] = tip]
       /\ r.brs[B] = branches[B]
       /\ r.head = HEAD
       /\ LET T == TreeFiles(r.db, r.db[unwrap(tip)].tree_sha) IN
          /\ T = MergeResult(B)
          /\ FileEntries(r.idx) = T
          /\ WorktreeHolds(r.wt, r.db, T)
          /\ \A f \in Cf \cup Mf : f[1] \notin PathsIn(Lf) => f \in T
          /\ \A f \in Lf : (f \in Cf /\ f \in Mf) => f \in T

\* C10 as stated: a three-way merge without conflicts stores the merge
\* commit and leaves index and working tree equal to the merged tree,
\* whatever the working tree holds (read weakly: the working tree need only
\* hold the files of the merged tree afterwards).
C10_AsStated ==
    \A B \in BranchNames : \A now \in Times :
        ThreeWayCase(B) =>
            ThreeWayMerged(merge(worktree, index_file, objects, branches, HEAD,
                                 B, now), B)

\* C10: a three-way merge of B without conflicts, begun with the working tree
\* holding exactly the files of C's tree and nothing standing where the
\* merged tree adds a path, stores a new commit with parents [C, M] and
\* message "Merge <B>", advances the current branch to it, leaves B's pointer
\* and HEAD unchanged, and leaves index and working tree equal to the merged
\* tree: the files added on each side and the files unchanged since the
\* split point among them.
C10_ThreeWayMerge ==
    \A B \in BranchNames : \A now \in Times :
        LET C == CommitFiles(objects, get_current_commit(branches, HEAD))
        IN (/\ ThreeWayCase(B)
            /\ WorktreeEquals(worktree, objects, C)
            /\ Unobstructed(worktree, C, MergeResult(B))) =>
           LET r == merge(worktree, index_file, objects, branches, HEAD, B, now)
           IN ThreeWayMerged(r, B) /\ WorktreeEquals(r.wt, r.db, MergeResult(B))

\* each side added a file of its own to a split point that has a file, the
\* working tree is the current commit's tree, and the merge completes
C10_Witness ==
    \E B \in BranchNames :
        /\ ThreeWayCase(B)
        /\ LET C == get_current_commit(branches, HEAD)
               M == Tip(branches, B)
               Lf == CommitFiles(objects, Some(SplitPoint(C, M)))
               Cf == CommitFiles(objects, C)
               Mf == CommitFiles(objects, M)
           IN /\ WorktreeEquals(worktree, objects, Cf)
              /\ \E f \in Lf : f \in Cf /\ f \in Mf
              /\ \E f \in Cf : f[1] \notin PathsIn(Lf) \cup PathsIn(Mf)
              /\ \E f \in Mf : f[1] \notin PathsIn(Lf) \cup PathsIn(Cf)
        /\ merge(worktree, index_file, objects, branches, HEAD, B, 1).outcome
              = "merged"

\* the bytes of the blob a set of (path, digest) pairs gives a path, "" for
\* no entry
ContentAt(db, files, p) ==
    IF is_some(ShaAt(files, p)) THEN db[unwrap(ShaAt(files, p))].data ELSE ""

\* the current commit and B's commit have a split point that is neither of
\* them and the index is clean
DivergedCase(B) ==
    LET C == get_current_commit(branches, HEAD)
        M == Tip(branches, B)
    IN /\ HEAD.kind = "Symbolic"
       /\ is_some(C) /\ is_some(M)
       /\ CommonChain(C, M) /= {}
       /\ unwrap(C) \notin CommonChain(C, M)
       /\ unwrap(M) \notin CommonChain(C, M)
       /\ FileEntries(index_file) = CommitFiles(objects, C)

\* the paths on which the merge of B conflicts
ConflictPaths(B) ==
    LET C == get_current_commit(branches, HEAD)
        M == Tip(branches, B)
        Lf == CommitFiles(objects, Some(SplitPoint(C, M)))
        Cf == CommitFiles(objects, C)
        Mf == CommitFiles(objects, M)
    IN {p \in PathsIn(Lf) \cup PathsIn(Cf) \cup PathsIn(Mf) :
           Conflicting(Lf, Cf, Mf, p)}

\* the paths the tree of the merge of B lists: the conflicting ones and
\* those the three-way rule keeps
MergedPaths(B) ==
    LET C == get_current_commit(branches, HEAD)
        M == Tip(branches, B)
        Lf == CommitFiles(objects, Some(SplitPoint(C, M)))
        Cf == CommitFiles(objects, C)
        Mf == CommitFiles(objects, M)
    IN ConflictPaths(B) \cup
       {p \in PathsIn(Lf) \cup PathsIn(Cf) \cup PathsIn(Mf) :
           is_some(MergedAt(Lf, Cf, Mf, p))}

\* the conflict blob of path p in the merge of B: both sides' bytes between
\* the markers, the current side first
ConflictBlob(B, p) ==
    Blob("<<<<<<< HEAD\n"
         \o ContentAt(objects, CommitFiles(objects, get_current_commit(branches, HEAD)), p)
         \o "=======\n"
         \o ContentAt(objects, CommitFiles(objects, Tip(branches, B)), p)
         \o ">>>>>>>")

\* r is a completed merge of B: a new commit with parents [C, M] is the
\* current branch's tip, and its tree, the index and the working tree hold
\* the stored conflict blob at every conflicting path
ConflictMerged(r, B) ==
    LET C == get_current_commit(branches, HEAD)
        M == Tip(branches, B)
        tip == r.brs[HEAD.name]
    IN /\ r.exit = 0
       /\ is_some(tip)
       /\ unwrap(tip) \notin DOMAIN objects
       /\ unwrap(tip) \in DOMAIN r.db
       /\ r.db[unwrap(tip)].type = "commit"
       /\ r.db[unwrap(tip)].parents = <<unwrap(C), unwrap(M)>>
       /\ r.brs = [branches EXCEPT ![HEAD.name] = tip]
       /\ r.head = HEAD
       /\ \A p \in ConflictPaths(B) :
             \E d \in DOMAIN r.db :
                 /\ r.db[d] = ConflictBlob(B, p)
                 /\ <<p, d>> \in TreeFiles(r.db, r.db[unwrap(tip)].tree_sha)
                 /\ <<p, d>> \in FileEntries(r.idx)
                 /\ r.wt[p] = Some(ConflictBlob(B, p).data)

\* C11 as stated: a merge of diverged commits with a conflicting path
\* completes with the conflict blobs in place, whatever the working tree
\* holds.
C11_AsStated ==
    \A B \in BranchNames : \A now \in Times :
        (DivergedCase(B) /\ ConflictPaths(B) /= {}) =>
            ConflictMerged(merge(worktree, index_file, objects, branches, HEAD,
                                 B, now), B)

\* nothing stands in the working tree where the merge of B lists a path
\* that the current commit's tree has not
MergeUnobstructed(B) ==
    \A p \in MergedPaths(B)
             \ PathsIn(CommitFiles(objects, get_current_commit(branches, HEAD))) :
        ~Exists(worktree, p) /\ ~UnderFile(worktree, p)

\* C11: a merge of diverged commits with a conflicting path, begun with the
\* working tree holding exactly the files of C's tree and nothing standing
\* where the merge adds a path, is not aborted: it exits with 0, stores a
\* commit with parents [C, M], advances the current branch to it, and the
\* commit's tree, the index file and the working tree hold the stored
\* conflict blob at every conflicting path.
C11_ConflictMergeCommits ==
    \A B \in BranchNames : \A now \in Times :
        (/\ DivergedCase(B) /\ ConflictPaths(B) /= {}
         /\ WorktreeEquals(worktree, objects,
                CommitFiles(objects, get_current_commit(branches, HEAD)))
         /\ MergeUnobstructed(B)) =>
            ConflictMerged(merge(worktree, index_file, objects, branches, HEAD,
                                 B, now), B)

\* a merge with a conflict on a path the current side deleted completes
C11_Witness ==
    \E B \in BranchNames :
        /\ DivergedCase(B)
        /\ WorktreeEquals(worktree, objects,
               CommitFiles(objects, get_current_commit(branches, HEAD)))
        /\ MergeUnobstructed(B)
        /\ \E p \in ConflictPaths(B) :
               p \notin PathsIn(CommitFiles(objects,
                                            get_current_commit(branches, HEAD)))
        /\ merge(worktree, index_file, objects, branches, HEAD, B, 1).outcome
              = "merged_conflict"

\* text on lines of its own: nothing for no text, else the text and a line
\* end (no content the user writes here ends in one)
OwnLines(text) == IF text = "" THEN "" ELSE text \o "\n"

\* the payload with every marker and each side's text on lines of their own
MarkedPayload(c, b) ==
    "<<<<<<< HEAD\n" \o OwnLines(c) \o "=======\n" \o OwnLines(b) \o ">>>>>>>"

\* C12 as stated: after a merge of B with conflicts the index gives every
\* conflicting path a blob whose payload is the line <<<<<<< HEAD, the
\* current side's content c on lines of its own, the line =======, the
\* branch side's content b on lines of its own, then >>>>>>> (a deleted side
\* is empty); for c = "D" and b = "F" it is "<<<<<<< HEAD\nD\n=======\nF\n>>>>>>>".
C12_AsStated ==
    \A B \in BranchNames : \A now \in Times :
        (DivergedCase(B) /\ ConflictPaths(B) /= {}) =>
            LET r == merge(worktree, index_file, objects, branches, HEAD, B, now)
                Cf == CommitFiles(objects, get_current_commit(branches, HEAD))
                Mf == CommitFiles(objects, Tip(branches, B))
            IN r.outcome = "merged_conflict" =>
                   \A p \in ConflictPaths(B) :
                       \E f \in FileEntries(r.idx) :
                           /\ f[1] = p
                           /\ f[2] \in DOMAIN r.db
                           /\ r.db[f[2]].data
                                 = MarkedPayload(ContentAt(objects, Cf, p),
                                                 ContentAt(objects, Mf, p))

\* a file of the working tree is at a path that the merge of B adds to the
\* current commit's tree
UntrackedInTheWay(B) ==
    \E p \in MergedPaths(B)
             \ PathsIn(CommitFiles(objects, get_current_commit(branches, HEAD))) :
        p \in DOMAIN worktree /\ is_some(worktree[p])

\* C13 as stated: a three-way merge blocked by an untracked file at a path it
\* would create fails with exit code 1 and leaves the index file, every
\* branch pointer, HEAD and the working tree as they were; the store may
\* only have grown.
C13_AsStated ==
    \A B \in BranchNames : \A now \in Times :
        (DivergedCase(B) /\ UntrackedInTheWay(B)) =>
            LET r == merge(worktree, index_file, objects, branches, HEAD, B, now)
            IN /\ r.exit = 1
               /\ r.idx = index_file
               /\ r.brs = branches
               /\ r.head = HEAD
               /\ r.wt = worktree
               /\ \A d \in DOMAIN objects : d \in DOMAIN r.db /\ r.db[d] = objects[d]

\* the part of C13 the code keeps: the blocked merge exits with 1 and leaves
\* branches, HEAD, working tree and the stored objects alone, while the
\* index file already lists the merged index
C13_BlockedMergeKeepsRefs ==
    \A B \in BranchNames : \A now \in Times :
        (DivergedCase(B) /\ UntrackedInTheWay(B)) =>
            LET r == merge(worktree, index_file, objects, branches, HEAD, B, now)
            IN /\ r.exit = 1
               /\ r.brs = branches
               /\ r.head = HEAD
               /\ r.wt = worktree
               /\ \A d \in DOMAIN objects : d \in DOMAIN r.db /\ r.db[d] = objects[d]
               /\ FileEntries(r.idx) /= FileEntries(index_file)
               /\ PathsIn(FileEntries(r.idx)) = MergedPaths(B)

\* the location a path designates, as components below the root: the path
\* taken from D when relative, with "." dropped and ".." resolved
RECURSIVE Resolve(_)
Resolve(path) ==
    IF path = <<>> THEN <<>>
    ELSE LET before == Resolve(SubSeq(path, 1, Len(path) - 1))
             c == path[Len(path)]
         IN IF c \in {"/", "."} THEN before
            ELSE IF c = ".."
            THEN (IF before = <<>> THEN <<>> ELSE SubSeq(before, 1, Len(before) - 1))
            ELSE Append(before, c)

Location(path) ==
    IF path /= <<>> /\ path[1] = "/" THEN Resolve(path) ELSE Resolve(<<"D">> \o path)

\* the path designates a location under D and not under D/.git
ValidWorkingTreePath(path) ==
    /\ Len(Location(path)) > 1
    /\ Location(path)[1] = "D"
    /\ Location(path)[2] /= ".git"

\* the repo-relative path of a location under D
RepoRelative(path) == Tail(Location(path))

\* the index file lists the path
Tracked(idx, rel) == \E e \in FileEntries(idx) : e[1] = rel

\* the entries of the index file at other paths than rel
OtherEntries(idx, rel) == {e \in FileEntries(idx) : e[1] /= rel}

\* r is the outcome the three cases of staging p call for
StagedAsCalledFor(r, p) ==
    LET rel == RepoRelative(p) IN
    /\ file_exists(worktree, p) =>
          /\ r.st = "ok"
          /\ \E d \in DOMAIN r.db :
                /\ r.db[d] = Blob(unwrap(worktree[p]))
                /\ FileEntries(r.idx) = OtherEntries(index_file, rel) \cup {<<rel, d>>}
    /\ (~path_exists(worktree, p) /\ Tracked(index_file, rel)) =>
          /\ r.st = "ok"
          /\ FileEntries(r.idx) = OtherEntries(index_file, rel)
    /\ (~path_exists(worktree, p) /\ ~Tracked(index_file, rel)) =>
          /\ r.st = "err"
          /\ FileEntries(r.idx) = FileEntries(index_file)

\* C14 as stated: staging a valid working-tree path p stores the blob of an
\* existing regular file and maps p's repo-relative path to its digest,
\* removes the entry of a missing tracked p, fails for a missing untracked p,
\* and in each case leaves all other entries unchanged.
C14_AsStated ==
    \A p \in StageArgs :
        ValidWorkingTreePath(p) =>
            StagedAsCalledFor(update_index(worktree, index_file, objects, p), p)

\* no entry of the index file lies at a directory of rel or below rel
NoEntryAcross(idx, rel) ==
    \A e \in FileEntries(idx) :
        /\ ~(Len(e[1]) < Len(rel) /\ SubSeq(rel, 1, Len(e[1])) = e[1])
        /\ ~(Len(e[1]) > Len(rel) /\ SubSeq(e[1], 1, Len(rel)) = rel)

\* the three cases of C14 hold whenever the index tracks no file at a
\* directory of p and no file below p
C14_StagingWithoutCollision ==
    \A p \in StageArgs :
        (ValidWorkingTreePath(p) /\ NoEntryAcross(index_file, RepoRelative(p))) =>
            StagedAsCalledFor(update_index(worktree, index_file, objects, p), p)

\* C15 as stated: an add call that fails leaves the index file with the
\* entries it had before the call, even when other supplied paths were
\* stageable.
C15_AsStated ==
    \A files \in StageLists :
        LET r == add(worktree, index_file, objects, files)
        IN r.st /= "ok" => FileEntries(r.idx) = FileEntries(index_file)

\* what add does keep when it fails: exactly the arguments before the failing
\* one are staged, one after the other
C15_FailedAddKeepsPrefix ==
    \A files \in StageLists :
        LET r == add(worktree, index_file, objects, files)
        IN (Len(files) = 2 /\ r.st /= "ok") =>
              LET first == add(worktree, index_file, objects, <<files[1]>>)
              IN IF first.st = "ok"
                 THEN FileEntries(r.idx) = FileEntries(first.idx)
                 ELSE FileEntries(r.idx) = FileEntries(index_file)

\* C16 as stated: staging a path that designates a location outside D (also
\* when spelled through a parent-directory component) or inside D/.git is
\* rejected with an error and adds no entry to the index.
C16_AsStated ==
    \A p \in StageArgs :
        ~ValidWorkingTreePath(p) =>
            LET r == update_index(worktree, index_file, objects, p)
            IN r.st = "err" /\ FileEntries(r.idx) = FileEntries(index_file)

\* what the test of the absolute path does reject: an absolute path that
\* does not start with D, and every path that starts with D/.git
C16_RejectsByPrefix ==
    \A p \in StageArgs :
        (p[1] = "/" \/ p[1] = ".git") =>
            LET r == update_index(worktree, index_file, objects, p)
            IN r.st = "err" /\ r.idx = index_file /\ r.db = objects

C18_RmBranch ==
    /\ HEAD.kind = "Symbolic"
    /\ HEAD.name \in DOMAIN branches
    /\ \A name \in BranchNames :
          LET r == rm_branch(branches, HEAD, name) IN
          /\ name = HEAD.name => (r.outcome = "active" /\ r.brs = branches)
          /\ (name /= HEAD.name /\ name \in DOMAIN branches) =>
                /\ r.outcome = "ok"
                /\ DOMAIN r.brs = DOMAIN branches \ {name}
                /\ \A n \in DOMAIN r.brs : r.brs[n] = branches[n]

\* HEAD names a branch made by branch and reached by checkout, the branch it
\* was made from is still there and can be removed, a removal of HEAD's own
\* branch is refused
C18_Witness ==
    /\ HEAD = Symbolic("feature")
    /\ "master" \in DOMAIN branches
    /\ rm_branch(branches, HEAD, "master").outcome = "ok"
    /\ rm_branch(branches, HEAD, "feature").outcome = "active"

\* the file at p is committed, the index still holds the committed digest and
\* the working tree holds other content at p: overwritten and not yet added
OverwrittenNotAdded(p) ==
    /\ \E f \in CommitFiles(objects, get_current_commit(branches, HEAD)) :
           /\ f[1] = p
           /\ <<p, f[2]>> \in FileEntries(index_file)
           /\ file_exists(worktree, p)
           /\ encoded_sha1(Blob(unwrap(worktree[p]))) /= f[2]

\* the file at p is committed and the index holds another digest for p
StagedOverCommitted(p) ==
    \E f \in CommitFiles(objects, get_current_commit(branches, HEAD)) :
        /\ f[1] = p
        /\ \E e \in FileEntries(index_file) : e[1] = p /\ e[2] /= f[2]

\* C19 as stated: after a file has been added and committed, overwriting it
\* in the working tree with different content and running status before any
\* add reports that path as Modified
C19_AsStated ==
    \A p \in Paths :
        OverwrittenNotAdded(p) =>
            <<"Modified", p>> \in status(index_file, objects, branches, HEAD).report

\* C19: after a file has been added and committed, overwriting it in the
\* working tree and running status before any add reports nothing for that
\* path; status reports the path as Modified once the index holds a digest
\* for it that differs from the committed one, that is after the add
C19_StatusReadsIndex ==
    \A p \in Paths :
        LET r == status(index_file, objects, branches, HEAD) IN
        /\ OverwrittenNotAdded(p) =>
               r.st = "ok" /\ \A l \in r.report : l[2] /= p
        /\ StagedOverCommitted(p) =>
               r.st = "ok" /\ <<"Modified", p>> \in r.report

\* the committed file has just been overwritten and status runs
C19_Witness ==
    /\ last = "write"
    /\ \E p \in Paths : OverwrittenNotAdded(p)
    /\ status(index_file, objects, branches, HEAD).st = "ok"

\* the overwritten file has been added and status reports it
C19_WitnessStaged ==
    /\ last = "add"
    /\ \E p \in Paths :
           /\ StagedOverCommitted(p)
           /\ <<"Modified", p>> \in status(index_file, objects, branches, HEAD).report

\* the index file lists exactly the files of the current commit's tree
IndexIsParentTree ==
    /\ is_some(get_current_commit(branches, HEAD))
    /\ is_some(index_file)
    /\ FileEntries(index_file)
           = CommitFiles(objects, get_current_commit(branches, HEAD))

\* C20 as stated: commit ends with exit code 0 only when a commit was
\* created; with an empty message, or with an index whose tree equals the
\* parent's tree, it ends with a nonzero exit code
C20_AsStated ==
    \A message \in Messages : \A now \in Times :
        LET r == commit(index_file, objects, branches, HEAD, message, now) IN
        /\ commit_exit(r.outcome) = Some(0) => r.outcome = "committed"
        /\ (message = "" \/ IndexIsParentTree) =>
               /\ is_some(commit_exit(r.outcome))
               /\ commit_exit(r.outcome) /= Some(0)

\* what the code does in those cases: commit with an empty message, or with an
\* index whose tree is the parent's, stores no commit, moves no branch and
\* ends the process with exit code 0
C20_RefusalsExitZero ==
    \A message \in Messages : \A now \in Times :
        LET r == commit(index_file, objects, branches, HEAD, message, now) IN
        (message = "" \/ IndexIsParentTree) =>
            /\ commit_exit(r.outcome) = Some(0)
            /\ Commits(r.db) = Commits(objects)
            /\ r.brs = branches /\ r.head = HEAD

\* a commit exists, the index is its tree, and commit is run with a message
C20_WitnessNoChanges ==
    /\ IndexIsParentTree
    /\ commit(index_file, objects, branches, HEAD, "m", 1).outcome = "no_changes"

\* the blobs the user's file contents make
UserBlobs == {Blob(data) : data \in UNION {UserContents(p) : p \in Paths \cup MergePaths}}

\* storing obj leaves every object of the store in place and returns the
\* digest of obj; an object already present leaves the store as it was
StoreKeeps(db, obj) ==
    LET r == store(db, obj) IN
    /\ r[2] = encoded_sha1(obj)
    /\ \A d \in DOMAIN db : d \in DOMAIN r[1] /\ r[1][d] = db[d]
    /\ r[2] \in DOMAIN db => r[1] = db
    /\ store(r[1], obj) = r

\* no step removes a digest from the store or changes the object under it
ObjectsKept == \A d \in DOMAIN objects : d \in DOMAIN objects' /\ objects'[d] = objects[d]

\* C21: store is idempotent and never overwrites: storing an object whose
\* digest is present returns the same digest and leaves the object under it
\* and under every other digest unchanged; across any sequence of operations
\* the object under a digest never changes and no digest is removed
C21_StoreNeverOverwrites ==
    /\ [](\A obj \in UserBlobs \cup {objects[d] : d \in DOMAIN objects} :
              StoreKeeps(objects, obj))
    /\ [][ObjectsKept]_vars

\* the store holds several objects, one of them is stored again and another
\* one is new to it
C21_Witness ==
    /\ Cardinality(DOMAIN objects) >= 3
    /\ \E obj \in UserBlobs : encoded_sha1(obj) \in DOMAIN objects
    /\ \E obj \in UserBlobs : encoded_sha1(obj) \notin DOMAIN objects

\* the index write_tree loads from the index file
LoadedIndex == Index_load(unwrap(index_file))

\* the index read back from the tree write_tree stores for the index file
ReadBack ==
    LET w == write_tree(objects, unwrap(index_file)) IN read_tree(w[1], w[2])

\* C22: for every index I, the empty index and indices with nested
\* directories included, read_tree(write_tree(I)) has exactly the set of
\* (path, digest) entries of I
C22_ReadTreeOfWriteTree ==
    is_some(index_file) =>
        /\ is_some(ReadBack)
        /\ Entries(unwrap(ReadBack)) = Entries(LoadedIndex)
        /\ Entries(LoadedIndex) = FileEntries(index_file)

\* the index holds a file at the top and a file in a directory
C22_Witness ==
    /\ is_some(index_file)
    /\ \E e \in FileEntries(index_file) : Len(e[1]) = 1
    /\ \E e \in FileEntries(index_file) : Len(e[1]) = 2
    /\ is_some(ReadBack)

\* the index file exists and lists nothing
C22_WitnessEmpty ==
    /\ is_some(index_file)
    /\ FileEntries(index_file) = {}
    /\ is_some(ReadBack)

\* the paths update and remove are called with, and a digest to record
IndexCallPaths == {<<"a">>, <<"d">>, <<"d", "a">>}

IndexCallDigest == encoded_sha1(Blob("hello"))

\* q is p cut at a component boundary before its end
ProperPrefix(q, p) == Len(q) < Len(p) /\ SubSeq(p, 1, Len(q)) = q

\* size is the number of entries and no stored path lies above another
SizeCountsEntries(index) ==
    /\ index.size = Cardinality(Entries(index))
    /\ \A e, f \in Entries(index) : ~ProperPrefix(e[1], f[1])

\* C30 as stated: after any sequence of update(path, digest) and
\* remove(path) calls on an index, size equals the number of entries
\* returned by entries(), and no stored path is a proper prefix of another;
\* replacing an existing leaf leaves size unchanged and inserting a new leaf
\* increases it by one
C30_AsStated ==
    is_some(index_file) =>
        /\ SizeCountsEntries(LoadedIndex)
        /\ \A p \in IndexCallPaths :
              LET updated == update_entry(LoadedIndex, p, IndexCallDigest)
                  removed == remove_entry(LoadedIndex, p)[1]
              IN /\ SizeCountsEntries(updated)
                 /\ SizeCountsEntries(removed)
                 /\ updated.size = IF p \in Paths_of(LoadedIndex)
                                   THEN LoadedIndex.size ELSE LoadedIndex.size + 1

\* what holds of the code: entries() never lists a path above another one,
\* and size counts the entries as long as no call names a path above or
\* below a stored one
C30_SizeWithoutCollision ==
    is_some(index_file) =>
        /\ SizeCountsEntries(LoadedIndex)
        /\ \A p \in IndexCallPaths :
              LET updated == update_entry(LoadedIndex, p, IndexCallDigest)
                  removed == remove_entry(LoadedIndex, p)[1]
              IN /\ \A e, f \in Entries(updated) \cup Entries(removed) :
                        e \in Entries(updated) /\ f \in Entries(updated)
                            => ~ProperPrefix(e[1], f[1])
                 /\ NoEntryAcross(index_file, p) =>
                        /\ SizeCountsEntries(updated)
                        /\ SizeCountsEntries(removed)
                        /\ updated.size = IF p \in Paths_of(LoadedIndex)
                                          THEN LoadedIndex.size
                                          ELSE LoadedIndex.size + 1

\* the index holds the file d and update is called with d/a
C30_WitnessCollision ==
    /\ is_some(index_file)
    /\ <<"d">> \in Paths_of(LoadedIndex)
    /\ update_entry(LoadedIndex, <<"d", "a">>, IndexCallDigest).size = 2
    /\ Cardinality(Entries(update_entry(LoadedIndex, <<"d", "a">>, IndexCallDigest))) = 1

\* the first-parent chain of a stored commit, the commit first
RECURSIVE FirstParentWalk(_, _)
FirstParentWalk(db, c) ==
    IF db[c].parents = <<>> THEN <<c>>
    ELSE <<c>> \o FirstParentWalk(db, db[c].parents[1])

\* the places of the chain of M that hold a commit of the chain of C
SharedPlaces(db, C, M) ==
    {i \in DOMAIN FirstParentWalk(db, M) :
        FirstParentWalk(db, M)[i] \in FirstParentChain(db, C)}

\* C29: find_lca(C, M) returns the first commit on M's first-parent chain,
\* M first, that lies on C's first-parent chain, C included; it returns none
\* exactly when the two chains are disjoint, and it terminates
C29_FindLca ==
    \A C, M \in Commits(objects) :
        LET r == find_lca(objects, C, M)
            shared == SharedPlaces(objects, C, M)
        IN /\ r.st = "ok"
           /\ shared = {} <=> ~is_some(r.lca)
           /\ shared /= {} =>
                  /\ unwrap(r.lca) \in FirstParentChain(objects, C)
                  /\ \E i \in shared :
                         /\ unwrap(r.lca) = FirstParentWalk(objects, M)[i]
                         /\ \A j \in shared : i <= j

\* two commits that have diverged from a common ancestor which is neither
\* of them
C29_Witness ==
    \E C, M \in Commits(objects) :
        /\ is_some(find_lca(objects, C, M).lca)
        /\ unwrap(find_lca(objects, C, M).lca) \notin {C, M}

\* two commits whose first-parent chains share no commit
C29_WitnessDisjoint ==
    \E C, M \in Commits(objects) :
        SharedPlaces(objects, C, M) = {} /\ ~is_some(find_lca(objects, C, M).lca)

\* the files of the split point, of the current commit and of B's commit
SplitFiles(B) ==
    CommitFiles(objects, Some(SplitPoint(get_current_commit(branches, HEAD),
                                         Tip(branches, B))))

CurrentFiles == CommitFiles(objects, get_current_commit(branches, HEAD))

BranchFiles(B) == CommitFiles(objects, Tip(branches, B))

\* every path one of the three trees lists
ThreeWayPaths(B) ==
    PathsIn(SplitFiles(B)) \cup PathsIn(CurrentFiles) \cup PathsIn(BranchFiles(B))

\* the index file the merge of B leaves
MergedIndex(B) ==
    FileEntries(merge(worktree, index_file, objects, branches, HEAD, B, 1).idx)

\* the state of p the claim calls for when at most one side changed it: the
\* branch's where the current side kept the split point's, the current
\* side's where the branch kept it
OneSidedState(B, p) ==
    IF ShaAt(CurrentFiles, p) = ShaAt(SplitFiles(B), p)
    THEN ShaAt(BranchFiles(B), p) ELSE ShaAt(CurrentFiles, p)

\* C27: in a three-way merge with split point L, for every path changed on
\* at most one side since L the merged index takes that side's state: the
\* branch's digest where only the branch changed or added it, absent where
\* only the branch deleted it, the current side's state where only the
\* current side changed, added or deleted it, L's digest where neither did
C27_AsStated ==
    \A B \in BranchNames :
        DivergedCase(B) =>
            \A p \in ThreeWayPaths(B) :
                (\/ ShaAt(CurrentFiles, p) = ShaAt(SplitFiles(B), p)
                 \/ ShaAt(BranchFiles(B), p) = ShaAt(SplitFiles(B), p)) =>
                    ShaAt(MergedIndex(B), p) = OneSidedState(B, p)

\* the three trees list no path above or below another listed path
NoPathAcross(B) ==
    \A p, q \in ThreeWayPaths(B) : ~ProperPrefix(p, q)

\* the rule of C27 holds whenever no tree has a file where another tree
\* has a directory
C27_OneSidedWithoutCollision ==
    \A B \in BranchNames :
        (DivergedCase(B) /\ NoPathAcross(B)) =>
            \A p \in ThreeWayPaths(B) :
                (\/ ShaAt(CurrentFiles, p) = ShaAt(SplitFiles(B), p)
                 \/ ShaAt(BranchFiles(B), p) = ShaAt(SplitFiles(B), p)) =>
                    ShaAt(MergedIndex(B), p) = OneSidedState(B, p)

\* feature has the file d/c, master has the file d, and master is merged
\* into feature
C27_WitnessAcross ==
    /\ HEAD = Symbolic("feature")
    /\ DivergedCase("master")
    /\ <<"d", "c">> \in PathsIn(CurrentFiles)
    /\ <<"d">> \in PathsIn(BranchFiles("master"))
    /\ <<"d", "c">> \notin PathsIn(MergedIndex("master"))

\* both sides changed p since the split point and to the same state: the
\* same digest, or both deleted it
SameChange(B, p) ==
    /\ ShaAt(CurrentFiles, p) /= ShaAt(SplitFiles(B), p)
    /\ ShaAt(BranchFiles(B), p) /= ShaAt(SplitFiles(B), p)
    /\ ShaAt(CurrentFiles, p) = ShaAt(BranchFiles(B), p)

\* the merge r of B has made the conflict blob of p
ConflictBlobMade(r, B, p) == encoded_sha1(ConflictBlob(B, p)) \in DOMAIN r.db

\* C28: in a three-way merge a path is treated as a conflict exactly when
\* both sides changed it since the split point in different ways (both
\* modified or both added it with different digests, or one deleted it and
\* the other modified it); when both sides made the same change no conflict
\* blob is made and the index entry of the path is left as on the current
\* side
C28_ConflictExactly ==
    \A B \in BranchNames :
        DivergedCase(B) =>
            LET r == merge(worktree, index_file, objects, branches, HEAD, B, 1) IN
            /\ \A p \in ThreeWayPaths(B) :
                  /\ Conflicting(SplitFiles(B), CurrentFiles, BranchFiles(B), p)
                         <=> ConflictBlobMade(r, B, p)
                  /\ SameChange(B, p) =>
                         /\ ~ConflictBlobMade(r, B, p)
                         /\ ShaAt(FileEntries(r.idx), p) = ShaAt(CurrentFiles, p)
            /\ r.outcome = "merged_conflict" => ConflictPaths(B) /= {}
            /\ r.outcome = "merged" => ConflictPaths(B) = {}

\* the merge of B meets a path both sides changed to the same digest and a
\* path one side deleted and the other modified
C28_Witness ==
    \E B \in BranchNames :
        /\ DivergedCase(B)
        /\ \E p \in ThreeWayPaths(B) :
               SameChange(B, p) /\ is_some(ShaAt(CurrentFiles, p))
        /\ \E p \in ConflictPaths(B) :
               ~is_some(ShaAt(CurrentFiles, p)) \/ ~is_some(ShaAt(BranchFiles(B), p))
        /\ merge(worktree, index_file, objects, branches, HEAD, B, 1).outcome
               = "merged_conflict"

\* the merge of B meets a path both sides modified to different digests
C28_WitnessModified ==
    \E B \in BranchNames :
        /\ DivergedCase(B)
        /\ \E p \in ConflictPaths(B) :
               /\ is_some(ShaAt(SplitFiles(B), p))
               /\ is_some(ShaAt(CurrentFiles, p))
               /\ is_some(ShaAt(BranchFiles(B), p))

\* the store and the refs of the current state
StoreAndRefs == [db |-> objects, brs |-> branches, head |-> HEAD]

\* no ref names a digest that is absent from the store, every stored tree
\* lists stored objects only, and every stored commit has its tree stored
RefsAndTreesStored(s) ==
    /\ \A n \in DOMAIN s.brs : is_some(s.brs[n]) => unwrap(s.brs[n]) \in DOMAIN s.db
    /\ s.head.kind = "Detached" => s.head.sha \in DOMAIN s.db
    /\ \A d \in DOMAIN s.db :
          /\ s.db[d].type = "tree" =>
                \A n \in DOMAIN s.db[d].entries : s.db[d].entries[n].sha1 \in DOMAIN s.db
          /\ s.db[d].type = "commit" => s.db[d].tree_sha \in DOMAIN s.db

\* the writes ws, made one after the other from the current state, keep
\* RefsAndTreesStored at every step
OrderedWrites(ws) ==
    \A n \in 0..Len(ws) : RefsAndTreesStored(after_writes(StoreAndRefs, ws, n))

\* the writes ws lead from the current state to the store and refs of r
WritesOf(ws, r) ==
    after_writes(StoreAndRefs, ws, Len(ws)) = [db |-> r.db, brs |-> r.brs, head |-> r.head]

\* the current state as the record merge works on
Repo == [wt |-> worktree, idx |-> index_file, db |-> objects, brs |-> branches,
         head |-> HEAD]

\* C26: within a single commit or merge the tree of every sub-directory is
\* stored before the tree that lists it, the commit is stored after its root
\* tree, and the branch pointer or HEAD is rewritten after the commit it is
\* to name is stored: the writes of commit and of merge, made in program
\* order, lead to the result of the operation and at no step between them
\* does a ref name a digest absent from the store, a stored tree list an
\* absent object or a stored commit name an absent tree
C26_WriteOrder ==
    /\ \A message \in Messages : \A now \in Times :
          LET ws == commit_writes(index_file, objects, branches, HEAD, message, now)
              r == commit(index_file, objects, branches, HEAD, message, now)
          IN r.outcome /= "panic" => WritesOf(ws, r) /\ OrderedWrites(ws)
    /\ \A B \in BranchNames : \A now \in Times :
          DivergedCase(B) =>
              LET ws == merge_writes(Repo, B, now)
                  r == merge(worktree, index_file, objects, branches, HEAD, B, now)
              IN WritesOf(ws, r) /\ OrderedWrites(ws)

\* a merge is about to store the tree of a directory, the root tree, the
\* merge commit and the branch pointer
C26_Witness ==
    \E B \in BranchNames :
        /\ DivergedCase(B)
        /\ merge(worktree, index_file, objects, branches, HEAD, B, 1).outcome
               \in {"merged", "merged_conflict"}
        /\ Len(merge_writes(Repo, B, 1)) >= 4
        /\ merge_writes(Repo, B, 1)[Len(merge_writes(Repo, B, 1))].kind = "ref"

\* a commit is about to store the tree of a directory, the root tree, the
\* commit and the branch pointer
C26_WitnessCommit ==
    /\ Len(commit_writes(index_file, objects, branches, HEAD, "m", 1)) >= 4
    /\ commit(index_file, objects, branches, HEAD, "m", 1).outcome = "committed"

----------------------------------------------------------------------------
(* The index file as text *)

SavedAndLoaded(index) == Index_load_text(Index_save_text(index))

HasSpace(text) == find_char(text, " ", 1) /= 0

\* C24: paths with spaces, Unicode characters or mixed separators round-trip:
\* loading the file written by save(I) yields an index with the same
\* (normalized path, digest) entries as I
C24_AsStated ==
    /\ is_some(SavedAndLoaded(mem_index))
    /\ Entries(unwrap(SavedAndLoaded(mem_index))) = Entries(mem_index)

\* C24, what holds: the entries come back when no path and no digest of the
\* index holds a space
C24_RoundTripWithoutSpaces ==
    (\A e \in Entries(mem_index) :
        /\ ~HasSpace(e[2])
        /\ \A i \in DOMAIN e[1] : ~HasSpace(e[1][i]))
    => C24_AsStated

\* an index with a Unicode path and one given with a backslash, saved and loaded
C24_WitnessNoSpace ==
    /\ <<<<"é">>, Hex1>> \in Entries(mem_index)
    /\ <<<<"d", "a">>, Hex1>> \in Entries(mem_index)
    /\ is_some(index_file)
    /\ unwrap(index_file) = Index_save_text(mem_index)

\* save(load(F)) for the content F of the index file; None when F does not load
Resaved(content) ==
    IF is_some(Index_load_text(content))
    THEN Some(Index_save_text(unwrap(Index_load_text(content)))) ELSE None

HandWritten == is_some(index_file) /\ unwrap(index_file) \in ValidIndexFiles

\* C23: for every valid index file F (lines "<path> <40-hex>", each ended by
\* a newline, sorted by path), saving the index loaded from F yields F
\* byte for byte
C23_AsStated == HandWritten => Resaved(unwrap(index_file)) = index_file

\* C23, what holds: a valid index file loads, and saving it again writes the
\* same lines, in some order
C23_SameLines ==
    HandWritten =>
        /\ is_some(Resaved(unwrap(index_file)))
        /\ Range(str_lines(unwrap(Resaved(unwrap(index_file)))))
               = Range(str_lines(unwrap(index_file)))

\* a hand-written file of two lines is in place and has been loaded
C23_WitnessTwoLines ==
    /\ HandWritten
    /\ Len(str_lines(unwrap(index_file))) = 2
    /\ Some(mem_index) = Index_load_text(unwrap(index_file))

----------------------------------------------------------------------------
(* Digests read from text *)

IsHex40(text) ==
    /\ Len(text) = 40
    /\ \A i \in 1..Len(text) :
          SubSeq(text, i, i) \in {"0", "1", "2", "3", "4", "5", "6", "7", "8", "9",
                                  "a", "b", "c", "d", "e", "f",
                                  "A", "B", "C", "D", "E", "F"}

\* the digest values Branch::load and Head::load hand out for the files in place
RefDigests ==
    {unwrap(Branch_load_text(branches[name])) :
        name \in {n \in DOMAIN branches : is_some(Branch_load_text(branches[n]))}}
    \cup (IF is_some(Head_load_text(HEAD))
             /\ unwrap(Head_load_text(HEAD)).kind = "Detached"
          THEN {unwrap(Head_load_text(HEAD)).sha} ELSE {})

\* the commits that the stored commit objects decode to
ParsedCommits ==
    {unwrap(parse_commit_content(objects[d])) :
        d \in {x \in DOMAIN objects : is_some(parse_commit_content(objects[x]))}}

CommitDigests ==
    {c.tree_sha : c \in ParsedCommits}
    \cup UNION {Range(c.parents) : c \in ParsedCommits}

\* C25: building a digest from a string fails unless the string is forty
\* hexadecimal digits, and no other digest value comes out of reading a
\* branch file, HEAD or a stored commit
C25_AsStated ==
    /\ \A name \in DOMAIN branches :
          is_some(from_str(branches[name])) => IsHex40(branches[name])
    /\ \A d \in RefDigests \cup CommitDigests : IsHex40(from_string(d))

\* C25, what holds: a digest read from a branch file or from HEAD is forty
\* characters long
C25_LengthChecked == \A d \in RefDigests : Len(d) = 40

\* a branch file and HEAD hold digests, and a commit object has been decoded
C25_WitnessRead ==
    /\ Hex1 \in RefDigests
    /\ Hex2 \in RefDigests
    /\ ParsedCommits /= {}

----------------------------------------------------------------------------
(* Removing from the index *)

\* the entries of the index whose path is the one the text names
EntriesAt(index, text) ==
    {e \in Entries(index) : e[1] = Components(path_of(text))}

\* remove_entry of a tracked file hands out its digest and drops that entry only
RemovesTheFile(index, text) ==
    LET r == remove_entry(index, path_of(text)) IN
    \A e \in EntriesAt(index, text) :
        /\ r[2] = Some(e[2])
        /\ Entries(r[1]) = Entries(index) \ {e}
        /\ r[1].size = index.size - 1

\* remove_entry hands out nothing and leaves entries and size as they were
RemovesNothing(index, text) ==
    LET r == remove_entry(index, path_of(text)) IN
    /\ r[2] = None
    /\ Entries(r[1]) = Entries(index)
    /\ r[1].size = index.size

\* C31: remove(p) returns the digest of p and removes exactly the entry p, size
\* going down by one, when p is a tracked file; in every other case, a
\* directory holding tracked files included, it returns nothing and leaves
\* entries and size unchanged
C31_AsStated ==
    \A text \in PathTexts :
        /\ RemovesTheFile(mem_index, text)
        /\ EntriesAt(mem_index, text) = {} => RemovesNothing(mem_index, text)

\* C31, what holds: a tracked file is removed as stated, and a path at which
\* the index has no node is left alone
C31_RemoveFileOrMissing ==
    \A text \in PathTexts :
        /\ RemovesTheFile(mem_index, text)
        /\ find_node(mem_index.root, Components(path_of(text))) = None
              => RemovesNothing(mem_index, text)

\* the index tracks d/a, so that "./d" names a directory holding a tracked file
C31_WitnessDirectory ==
    /\ EntriesAt(mem_index, "d\\a") /= {}
    /\ EntriesAt(mem_index, "./d") = {}

----------------------------------------------------------------------------
(* Path normalization *)

\* the components left when root and current-directory components are dropped
\* and each parent-directory component takes the component before it away
RECURSIVE Collapsed(_)
Collapsed(path) ==
    IF path = <<>> THEN <<>>
    ELSE LET init == Collapsed(SubSeq(path, 1, Len(path) - 1))
             c == path[Len(path)]
         IN IF c \in {"/", "."} THEN init
            ELSE IF c = ".." THEN SubSeq(init, 1, Len(init) - 1)
            ELSE Append(init, c)

\* the result has no "." or ".." component and no leading slash, and
\* normalizing it again returns it
CleanAndStable(text) ==
    /\ \A c \in Range(path_of(normalize_text(text))) : c \notin {"/", ".", ".."}
    /\ normalize_text(normalize_text(text)) = normalize_text(text)

\* update_entry for the path stores the digest at the given components
EntryMadeAt(text, comps) ==
    comps /= <<>> =>
        get_sha1(update_entry(mem_index, path_of(text), Hex2), comps) = Some(Hex2)

\* C32: normalization drops root, current-directory and leading
\* parent-directory components and collapses each interior parent-directory
\* component with the component before it (a/../b becomes b); the result has
\* no "." or ".." component, no leading slash, and is a fixed point
C32_AsStated ==
    \A text \in PathTexts \cup NormalizeTexts :
        /\ path_of(normalize_text(text)) = Collapsed(path_of(text))
        /\ EntryMadeAt(text, Collapsed(path_of(text)))
        /\ CleanAndStable(text)

\* C32, what holds: normalization keeps the ordinary components in their
\* order and drops every other one, and the result is clean and a fixed point
C32_DropsEverySpecial ==
    \A text \in PathTexts \cup NormalizeTexts :
        /\ path_of(normalize_text(text))
              = SelectSeq(path_of(text), LAMBDA c : c \notin {"/", ".", ".."})
        /\ EntryMadeAt(text, path_of(normalize_text(text)))
        /\ CleanAndStable(text)

\* an entry was made under d for the path d/../é
C32_WitnessInterior ==
    EntriesAt(mem_index, "d/é") /= {} /\ EntriesAt(mem_index, "é") = {}

----------------------------------------------------------------------------
(* Branch files *)

\* the trimmed content of the branch file of the name, "" without a file
Trimmed(name) == IF name \in DOMAIN branches THEN trim(branches[name]) ELSE ""

\* what loading the branch file of the name gives, for the files in place:
\* no branch without a file, else a branch that has the trimmed content as
\* its commit when is_digest, and no commit otherwise
LoadsBy(name, is_digest) ==
    LET b == Branch_load_file(branches, name) IN
    IF name \notin DOMAIN branches THEN b = None
    ELSE /\ is_some(b)
         /\ unwrap(b).name = name
         /\ unwrap(b).commit_sha = IF is_digest THEN Some(Trimmed(name)) ELSE None

SavedLoadsBack ==
    \A sha \in {None, Some(Hex1), Some(Hex2)} :
        Branch_load_text(Branch_save_text(sha)) = sha

\* C33: a branch file loads with a commit digest exactly when its trimmed
\* content is forty hexadecimal digits; any other content loads as a branch
\* without commit and a missing file as no branch; a saved branch loads back
\* with the value it was saved with
C33_AsStated ==
    /\ \A name \in BranchNames : LoadsBy(name, IsHex40(Trimmed(name)))
    /\ SavedLoadsBack

\* C33, what holds: the same with "forty characters" for "forty hexadecimal
\* digits"
C33_LengthDecides ==
    /\ \A name \in BranchNames : LoadsBy(name, Len(Trimmed(name)) = 40)
    /\ SavedLoadsBack

\* one branch was saved without commit, the other has a digest in its file
C33_WitnessFiles ==
    /\ branches["master"] = "No commit"
    /\ "feature" \in DOMAIN branches
    /\ is_some(Branch_load_text(branches["feature"]))

----------------------------------------------------------------------------
(* Commits written and read back *)

\* the commits of CommitValues whose encoding is in the store
StoredValues ==
    {c \in CommitValues : encoded_sha1(Commit_display(c)) \in DOMAIN objects}

Decoded(c) == parse_commit_content(objects[encoded_sha1(Commit_display(c))])

\* decoding gives the tree digest and the parents, in order, that were encoded
HeaderComesBack(c) ==
    /\ is_some(Decoded(c))
    /\ unwrap(Decoded(c)).tree_sha = c.tree_sha
    /\ unwrap(Decoded(c)).parents = c.parents

\* C34: decoding the encoding of a commit returns the same tree digest, the
\* same ordered parents (none for an initial commit) and the same message
\* verbatim, messages with blank lines or trailing whitespace included
C34_AsStated ==
    \A c \in StoredValues :
        HeaderComesBack(c) /\ unwrap(Decoded(c)).message = c.message

\* a message without blank line and without whitespace at its end
PlainMessage(m) == trim_end(m) = m /\ find_str(m, "\n\n", 1) = 0

\* C34, what holds: tree digest and parents come back, and the message comes
\* back when it has no blank line and no whitespace at its end
C34_PlainMessageComesBack ==
    \A c \in StoredValues :
        /\ HeaderComesBack(c)
        /\ PlainMessage(c.message) => unwrap(Decoded(c)).message = c.message

\* an initial commit and a commit of two parents are in the store
C34_WitnessStored ==
    /\ \E c \in StoredValues : c.parents = <<>> /\ c.message = "m"
    /\ \E c \in StoredValues : Len(c.parents) = 2

----------------------------------------------------------------------------
(* The index after commit, checkout and merge *)

\* the index file lists exactly the files of the tree of HEAD's commit, and
\* nothing when HEAD's branch has no commit
IndexIsHeadTree(idx, db, brs, head) ==
    /\ is_some(idx)
    /\ FileEntries(idx) = CommitFiles(db, get_current_commit(brs, head))

\* no merge run next is refused for uncommitted changes
NextMergeNotDirty(wt, idx, db, brs, head) ==
    \A name \in BranchNames : \A now \in Times :
        merge(wt, idx, db, brs, head, name, now).outcome /= "dirty"

\* a commit run next, with a message, is refused for want of changes
NextCommitNoChanges(idx, db, brs, head) ==
    \A now \in Times : commit(idx, db, brs, head, "m", now).outcome = "no_changes"

\* the repositories that a commit, a checkout or a merge run now leaves
\* when it succeeds, as [wt, idx, db, brs, head]
AfterCommit ==
    {[wt |-> worktree, idx |-> index_file, db |-> r.db, brs |-> r.brs, head |-> r.head] :
        r \in {x \in {commit(index_file, objects, branches, HEAD, message, now) :
                        message \in Messages, now \in Times} :
                   x.outcome = "committed"}}

AfterCheckout ==
    {[wt |-> r.wt, idx |-> r.idx, db |-> objects, brs |-> branches, head |-> r.head] :
        r \in {x \in {checkout(worktree, index_file, objects, branches, HEAD, name) :
                        name \in BranchNames} :
                   x.st = "ok"}}

AfterMerge ==
    {[wt |-> r.wt, idx |-> r.idx, db |-> r.db, brs |-> r.brs, head |-> r.head] :
        r \in {x \in {merge(worktree, index_file, objects, branches, HEAD, name, now) :
                        name \in BranchNames, now \in Times} :
                   x.outcome \in {"merged", "merged_conflict", "fast_forward", "noop"}}}

\* C35: after every successful commit, checkout or merge (three-way,
\* fast-forward or no-op) the index file has exactly the entries of the tree
\* of HEAD's commit (none when HEAD's branch has no commit), so a merge run
\* next is not refused for uncommitted changes and a commit run next is
\* refused as "no changes"
C35_AsStated ==
    \A s \in AfterCommit \cup AfterCheckout \cup AfterMerge :
        /\ IndexIsHeadTree(s.idx, s.db, s.brs, s.head)
        /\ NextMergeNotDirty(s.wt, s.idx, s.db, s.brs, s.head)
        /\ NextCommitNoChanges(s.idx, s.db, s.brs, s.head)

\* C35, what holds: the same, with the commit run next refused when HEAD's
\* branch has a commit
C35_IndexIsHeadTree ==
    \A s \in AfterCommit \cup AfterCheckout \cup AfterMerge :
        /\ IndexIsHeadTree(s.idx, s.db, s.brs, s.head)
        /\ NextMergeNotDirty(s.wt, s.idx, s.db, s.brs, s.head)
        /\ is_some(get_current_commit(s.brs, s.head))
              => NextCommitNoChanges(s.idx, s.db, s.brs, s.head)

\* a commit and a checkout can each be run with success
C35_Witness == AfterCommit /= {} /\ AfterCheckout /= {}

----------------------------------------------------------------------------
(* HEAD stays on a branch *)

\* C36: from init on, after any sequence of add, rm, commit, branch,
\* rm_branch, checkout and merge, HEAD is Symbolic and never Detached, so
\* checkout_index never takes its branch for a detached HEAD
C36_HeadSymbolic ==
    /\ HEAD.kind = "Symbolic"
    /\ HEAD.name \in BranchNames
    /\ \A name \in BranchNames :
          LET target == read_branch_to_index(objects, branches, name) IN
          target.st = "ok" =>
              checkout_index(worktree, objects, branches, HEAD, target.index).st
                  /= "panic"

\* HEAD names feature, whose branch a fast-forward has just moved
C36_Witness == last = "merge_fast_forward" /\ HEAD.name = "feature"

----------------------------------------------------------------------------
(* Branches move forward only *)

\* a commit and every commit reached from it by parent links
RECURSIVE ReachableFrom(_, _)
ReachableFrom(db, commit_sha) ==
    IF commit_sha \notin DOMAIN db THEN {}
    ELSE {commit_sha} \cup
         UNION {ReachableFrom(db, db[commit_sha].parents[i]) :
                    i \in DOMAIN db[commit_sha].parents}

\* the branches that exist before and after the step with another pointer
MovedBranches ==
    {name \in DOMAIN branches \cap DOMAIN branches' :
        branches'[name] /= branches[name]}

\* the step moves no branch but the current one, by commit, three-way merge
\* or fast-forward only, and to a commit from which the old tip is reached
MovesForward ==
    \A name \in MovedBranches :
        /\ HEAD = Symbolic(name)
        /\ last' \in {"commit", "merge_merged", "merge_merged_conflict",
                      "merge_fast_forward"}
        /\ is_some(branches'[name])
        /\ is_some(branches[name]) =>
               unwrap(branches[name])
                   \in ReachableFrom(objects', unwrap(branches'[name]))

\* C37: when commit, three-way merge or fast-forward moves the current
\* branch from an old tip to a new one, the old tip is reachable from the new
\* one by parent links; no other operation moves an existing branch, and no
\* operation moves a branch other than the current one
C37_NoHistoryLost == [][MovesForward]_vars

\* the current branch was moved by a commit that has its old tip as parent
C37_Witness ==
    /\ last = "commit"
    /\ is_some(get_current_commit(branches, HEAD))
    /\ objects[unwrap(get_current_commit(branches, HEAD))].parents /= <<>>

\* the current branch was moved by a three-way merge
C37_WitnessMerged ==
    /\ last \in {"merge_merged", "merge_merged_conflict"}
    /\ Len(objects[unwrap(get_current_commit(branches, HEAD))].parents) = 2

----------------------------------------------------------------------------
(* The arms of the merge loop *)

\* the index read from the tree of a stored commit
TreeIndexOf(commit_sha) ==
    unwrap(read_tree(objects, unwrap(load_commit(objects, commit_sha)).tree_sha))

\* the two diffs the three-way merge of B takes against the split point
LoopDiffs(B) ==
    LET cur == unwrap(get_current_commit(branches, HEAD))
        br == unwrap(Tip(branches, B))
        li == TreeIndexOf(unwrap(find_lca(objects, cur, br).lca))
    IN [cur |-> diff_index(li, TreeIndexOf(cur)),
        branch |-> diff_index(li, TreeIndexOf(br)),
        cur_index |-> TreeIndexOf(cur), branch_index |-> TreeIndexOf(br)]

\* the pairs of statuses that have an arm of their own in the loop
NamedPairs ==
    {<<"Modified", "Modified">>, <<"RightOnly", "RightOnly">>,
     <<"LeftOnly", "Modified">>, <<"Modified", "LeftOnly">>,
     <<"Unmodified", "Modified">>, <<"Modified", "Unmodified">>,
     <<"LeftOnly", "LeftOnly">>, <<"Unmodified", "LeftOnly">>,
     <<"LeftOnly", "Unmodified">>}

\* what the loop meets at path f: RightOnly on the one side when the other
\* side's diff lacks f, and a named pair or two Unmodified when both have it
ArmsAt(d, f) ==
    /\ f \notin DOMAIN d.branch => d.cur[f] = "RightOnly"
    /\ f \notin DOMAIN d.cur => d.branch[f] = "RightOnly"
    /\ (f \in DOMAIN d.cur /\ f \in DOMAIN d.branch) =>
           <<d.cur[f], d.branch[f]>> \in NamedPairs \cup {<<"Unmodified", "Unmodified">>}
    /\ merge_file(f, d.cur_index, d.branch_index, d.cur, d.branch,
                  Index_load(unwrap(index_file)), objects).st = "ok"

\* C39: in the loop of a three-way merge no unreachable!() arm is executed: a
\* path missing from one side's diff against the split point is RightOnly in
\* the other side's diff, and the catch-all arm for paths in both diffs is
\* reached for the pair (Unmodified, Unmodified) only
C39_ArmsNeverReached ==
    \A B \in BranchNames :
        DivergedCase(B) =>
            \A f \in DOMAIN LoopDiffs(B).cur \cup DOMAIN LoopDiffs(B).branch :
                ArmsAt(LoopDiffs(B), f)

\* a three-way merge is due in which one path is in the branch's diff only,
\* one in the current side's diff only, and one unchanged on both sides
C39_Witness ==
    \E B \in BranchNames :
        /\ DivergedCase(B)
        /\ DOMAIN LoopDiffs(B).branch \ DOMAIN LoopDiffs(B).cur /= {}
        /\ DOMAIN LoopDiffs(B).cur \ DOMAIN LoopDiffs(B).branch /= {}
        /\ \E f \in DOMAIN LoopDiffs(B).cur \cap DOMAIN LoopDiffs(B).branch :
               LoopDiffs(B).cur[f] = "Unmodified"
               /\ LoopDiffs(B).branch[f] = "Unmodified"

\* the repository after a checkout of B from the current state
Swapped(B) == switch(Repo, B)

\* merge of B from the current state, and merge of the branch that is now
\* current from the repository checked out at B
MergeHere(B) == merge(worktree, index_file, objects, branches, HEAD, B, 1)

MergeSwapped(B) ==
    merge(Swapped(B).wt, Swapped(B).idx, Swapped(B).db, Swapped(B).brs,
          Swapped(B).head, HEAD.name, 1)

\* B has diverged from the current branch, B can be checked out, and the
\* merge of B is a three-way merge that meets no conflict
SymmetricCase(B) ==
    /\ DivergedCase(B)
    /\ checkout(worktree, index_file, objects, branches, HEAD, B).st = "ok"
    /\ MergeHere(B).outcome = "merged"

\* with both loops taking the paths in the order of merge_files: the
\* first-parent LCA of the two tips is the same whichever of them is the
\* current one, the merge on B meets no conflict either, and the two saved
\* indexes list the same (path, digest) entries
C38_MergeSymmetric ==
    \A B \in BranchNames :
        SymmetricCase(B) =>
            /\ find_lca(objects, unwrap(get_current_commit(branches, HEAD)),
                        unwrap(Tip(branches, B))).lca
               = find_lca(objects, unwrap(Tip(branches, B)),
                          unwrap(get_current_commit(branches, HEAD))).lca
            /\ MergeSwapped(B).outcome = "merged"
            /\ FileEntries(MergeHere(B).idx) = FileEntries(MergeSwapped(B).idx)

\* a conflict-free three-way merge in which each side has changed a path the
\* other side has left alone
C38_Witness ==
    \E B \in BranchNames :
        /\ SymmetricCase(B)
        /\ FileEntries(MergeHere(B).idx) /= CurrentFiles
        /\ FileEntries(MergeHere(B).idx) /= BranchFiles(B)

\* every order in which a loop over the set S can take its elements
Orders(S) == {o \in [1..Cardinality(S) -> S] : Range(o) = S}

\* the paths the loop of the merge of branch_name, run from the repository s, goes through
LoopPaths(s, branch_name) ==
    LET cur == unwrap(get_current_commit(s.brs, s.head))
        br == unwrap(s.brs[branch_name])
        li == TreeIndexOf(unwrap(find_lca(s.db, cur, br).lca))
    IN DOMAIN diff_index(li, TreeIndexOf(cur)) \cup DOMAIN diff_index(li, TreeIndexOf(br))

\* the loop of the merge of branch_name run from s, taking the paths in order
LoopIn(s, branch_name, order) ==
    LET cur == unwrap(get_current_commit(s.brs, s.head))
        br == unwrap(s.brs[branch_name])
        li == TreeIndexOf(unwrap(find_lca(s.db, cur, br).lca))
    IN merge_files_in(order, TreeIndexOf(cur), TreeIndexOf(br),
                      diff_index(li, TreeIndexOf(cur)), diff_index(li, TreeIndexOf(br)),
                      Index_load(unwrap(s.idx)), s.db)

\* the loop ran through without a conflict
ConflictFree(r) == r.st = "ok" /\ ~r.conflict

\* B has diverged from the current branch and can be checked out
BothWays(B) ==
    /\ DivergedCase(B)
    /\ checkout(worktree, index_file, objects, branches, HEAD, B).st = "ok"

\* C38 as stated: whatever order the two loops take the paths in, a merge of
\* B on the current branch and a merge of the current branch on B that meet
\* no conflict find the same LCA and save indexes with the same (path,
\* digest) entries
C38_AsStated ==
    \A B \in BranchNames :
        BothWays(B) =>
            /\ find_lca(objects, unwrap(get_current_commit(branches, HEAD)),
                        unwrap(Tip(branches, B))).lca
               = find_lca(objects, unwrap(Tip(branches, B)),
                          unwrap(get_current_commit(branches, HEAD))).lca
            /\ \A here \in Orders(LoopPaths(Repo, B)) :
               \A there \in Orders(LoopPaths(Swapped(B), HEAD.name)) :
                   (/\ ConflictFree(LoopIn(Repo, B, here))
                    /\ ConflictFree(LoopIn(Swapped(B), HEAD.name, there)))
                   => Entries(LoopIn(Repo, B, here).index)
                      = Entries(LoopIn(Swapped(B), HEAD.name, there).index)

\* the loop of a merge of the commit br into the commit cur, with the index
\* equal to cur's tree, meets a conflict at path f
ConflictsAt(cur, br, f) ==
    LET li == TreeIndexOf(unwrap(find_lca(objects, cur, br).lca))
    IN merge_file(f, TreeIndexOf(cur), TreeIndexOf(br),
                  diff_index(li, TreeIndexOf(cur)), diff_index(li, TreeIndexOf(br)),
                  TreeIndexOf(cur), objects).conflict

\* the paths of the trees of the commits x and y
PathsOfCommits(x, y) == PathsIn(CommitFiles(objects, Some(x))) \cup PathsIn(CommitFiles(objects, Some(y)))

\* the current commit, loaded
CurrentCommit == unwrap(load_commit(objects, unwrap(get_current_commit(branches, HEAD))))

\* the current commit is the merge commit of a three-way merge of B, B has
\* no commit since, and the index is as the merge left it
AfterMergeOf(B) ==
    /\ HEAD.kind = "Symbolic"
    /\ is_some(get_current_commit(branches, HEAD))
    /\ is_some(Tip(branches, B))
    /\ Len(CurrentCommit.parents) = 2
    /\ CurrentCommit.parents[2] = unwrap(Tip(branches, B))
    /\ FileEntries(index_file) = CurrentFiles

\* the commit the current branch names after the merge with result r
TipAfter(r) == unwrap(load_commit(r.db, unwrap(get_current_commit(r.brs, r.head))))

\* C40: after a three-way merge of B has made a merge commit, merge(B) run
\* again with no new commit on B is no no-op: the LCA found is the split
\* point the first merge found, a second commit with the two parents
\* (the merge commit, B's tip) is stored and the current branch moved to it,
\* B stays where it is, and every path that conflicted in the first merge
\* conflicts again
C40_MergedAgain ==
    \A B \in BranchNames :
        AfterMergeOf(B) =>
            LET C == unwrap(get_current_commit(branches, HEAD))
                M == unwrap(Tip(branches, B))
                r == MergeHere(B)
            IN /\ is_some(find_lca(objects, C, M).lca)
               /\ find_lca(objects, C, M).lca
                  = find_lca(objects, CurrentCommit.parents[1], M).lca
               /\ r.outcome \in {"merged", "merged_conflict"}
               /\ get_current_commit(r.brs, r.head) /= Some(C)
               /\ unwrap(get_current_commit(r.brs, r.head)) \notin DOMAIN objects
               /\ TipAfter(r).parents = <<C, M>>
               /\ Tip(r.brs, B) = Some(M)
               /\ \A f \in PathsOfCommits(CurrentCommit.parents[1], M) \cup PathsOfCommits(C, M) :
                      ConflictsAt(CurrentCommit.parents[1], M, f) =>
                          /\ ConflictsAt(C, M, f)
                          /\ r.outcome = "merged_conflict"

\* the current commit is the merge commit of a merge of B that met a conflict
C40_Witness ==
    \E B \in BranchNames :
        /\ AfterMergeOf(B)
        /\ last = "merge_merged_conflict"
        /\ \E f \in PathsOfCommits(CurrentCommit.parents[1], unwrap(Tip(branches, B))) :
               ConflictsAt(CurrentCommit.parents[1], unwrap(Tip(branches, B)), f)

\* the current commit is the merge commit of a merge of B without conflict
C40_WitnessClean ==
    \E B \in BranchNames : AfterMergeOf(B) /\ last = "merge_merged"

====
